---- MODULE Spec2Model ----
(***************************************************************************)
(* Model of the oil-drilling data platform server (src/server/index.js):   *)
(* the Excel validation / transformation / statistics pipeline behind      *)
(* POST /api/upload and the chat handler behind POST /api/chat.            *)
(*                                                                         *)
(* JavaScript values.  A spreadsheet cell is undefined (the key is not in  *)
(* the record), null, a number or a string.  Decimal numbers are kept in   *)
(* hundredths: the cell Num(25) is the double nearest 0.25.  A double that *)
(* arises in arithmetic is the pair [m, e] standing for                    *)
(*        m/100 + e * u,      u = 2^-59 / 25,                              *)
(* m the exact decimal sum in hundredths and e the accumulated rounding    *)
(* error of IEEE-754 binary64, so that 0.99 is [99, -128] and the double   *)
(* 0.01 is [1, 3].  Round is round-to-nearest-even at the ulp of the       *)
(* result's binade; every double between 2^-7 and 2^4 is a multiple of     *)
(* 25*u, which is what makes the pair exact.                               *)
(***************************************************************************)
EXTENDS Integers, Sequences, FiniteSets, TLC

Undef == [t |-> "undefined", m |-> 0, s |-> <<>>]
Null == [t |-> "null", m |-> 0, s |-> <<>>]
Num(m) == [t |-> "number", m |-> m, s |-> <<>>]
Str(s) == [t |-> "string", m |-> 0, s |-> s]

JNum(m, e) == [t |-> "number", m |-> m, e |-> e, s |-> <<>>]
JStr(s) == [t |-> "string", m |-> 0, e |-> 0, s |-> s]

Pow2(j) == <<1, 2, 4, 8, 16, 32, 64, 128, 256, 512, 1024, 2048, 4096, 8192>>[j + 1]

(* Largest binade index the model's sums reach: 2^(MaxBinade-7) = 16. *)
MaxBinade == 11

IsPos(m, e) == m > 0 \/ (m = 0 /\ e > 0)

(* j with 2^(j-7) <= m/100 + e*u < 2^(j-6), searched downwards from j, or -1 below 2^-7; *)
(* the ulp there is 2^j * 25 * u.                                                        *)
RECURSIVE BinadeFrom(_, _, _)
BinadeFrom(m, e, j) ==
  IF j < 0 THEN -1
  ELSE IF 128 * m > 100 * Pow2(j) \/ (128 * m = 100 * Pow2(j) /\ e >= 0) THEN j
  ELSE BinadeFrom(m, e, j - 1)

Binade(m, e) == BinadeFrom(m, e, MaxBinade)

(* 2^-j mod 25 *)
InvPow2(j) == <<1, 13, 19, 22, 11, 18, 9, 17, 21, 23, 24, 12, 6, 3>>[j + 1]

(* (m * 2^57 + e) mod (2^j * 25), from its residues a mod 2^j and b mod 25 (2^57 mod 25 *)
(* is 22): a + 2^j * t with t = (b - a) * 2^-j mod 25.                                  *)
Residue(m, e, j) ==
  LET a == e % Pow2(j)
      b == (22 * m + e) % 25
      t == (((b - a) % 25) * InvPow2(j)) % 25
  IN a + Pow2(j) * t

(* The multiple of the ulp U nearest to m/100 + e*u, which lies r above one: down below *)
(* the half, up above it, and to the even multiple at the half.                       *)
RoundAt(m, e, j, r, U) ==
  IF 2 * r < U THEN JNum(m, e - r)
  ELSE IF 2 * r > U THEN JNum(m, e - r + U)
  ELSE IF Residue(m, e, j + 1) = r THEN JNum(m, e - r)
  ELSE JNum(m, e - r + U)

RoundIn(m, e, j) ==
  IF j < 0 THEN JNum(m, e) ELSE RoundAt(m, e, j, Residue(m, e, j), Pow2(j) * 25)

RoundPos(m, e) == RoundIn(m, e, Binade(m, e))

Signed(p, neg) == IF neg THEN JNum(-(p.m), -(p.e)) ELSE p

RoundSigned(m, e, neg) ==
  Signed(RoundPos(IF neg THEN -m ELSE m, IF neg THEN -e ELSE e), neg)

(* IEEE-754 round-to-nearest, ties-to-even, of the real number m/100 + e*u. *)
Round(m, e) ==
  IF m = 0 /\ e = 0 THEN JNum(0, 0) ELSE RoundSigned(m, e, ~IsPos(m, e))

(* The double a decimal literal with two decimals denotes. *)
Lit(m) == Round(m, 0)

NumAdd(a, b) == Round(a.m + b.m, a.e + b.e)
NumSub(a, b) == Round(a.m - b.m, a.e - b.e)
NumAbs(a) == IF IsPos(a.m, a.e) THEN a ELSE JNum(-(a.m), -(a.e))
NumGt(a, b) == a.m > b.m \/ (a.m = b.m /\ a.e > b.e)

(***************************************************************************)
(* Strings are sequences of characters.  Number-to-string conversion       *)
(* prints the shortest decimal that reads back as the same double; for    *)
(* the double nearest a two-decimal number that is the number itself.      *)
(***************************************************************************)
DigitChars == <<"0", "1", "2", "3", "4", "5", "6", "7", "8", "9">>

IsDigit(c) == \E i \in 1..10 : DigitChars[i] = c
DigitVal(c) == (CHOOSE i \in 1..10 : DigitChars[i] = c) - 1

RECURSIVE IntDigits(_)
IntDigits(n) ==
  IF n < 10 THEN <<DigitChars[n + 1]>>
  ELSE IntDigits(n \div 10) \o <<DigitChars[(n % 10) + 1]>>

DecStr(m) ==
  LET a == IF m < 0 THEN -m ELSE m
      fp == a % 100
      frac == IF fp = 0 THEN <<>>
              ELSE IF fp % 10 = 0 THEN <<".", DigitChars[(fp \div 10) + 1]>>
              ELSE <<".", DigitChars[(fp \div 10) + 1], DigitChars[(fp % 10) + 1]>>
  IN (IF m < 0 THEN <<"-">> ELSE <<>>) \o IntDigits(a \div 100) \o frac

(* A double prints as the two-decimal number m/100 exactly when it is the double nearest to it. *)
IsShortest(v) == v.e = Lit(v.m).e

ToStr(v) == IF v.t = "string" THEN v.s ELSE DecStr(v.m)

(* JavaScript a + b: numeric addition of two numbers, else string concatenation. *)
JsAdd(a, b) ==
  IF a.t = "number" /\ b.t = "number" THEN NumAdd(a, b)
  ELSE JStr(ToStr(a) \o ToStr(b))

(* Integer parts beyond this are only told apart from 1 +/- 0.01, not valued. *)
IntCap == 1000

RECURSIVE SatVal(_)
SatVal(ds) ==
  IF ds = <<>> THEN 0
  ELSE LET v == SatVal(SubSeq(ds, 1, Len(ds) - 1)) * 10 + DigitVal(ds[Len(ds)])
       IN IF v > IntCap THEN IntCap ELSE v

(* StringToNumber on a string of digits, '.', '-' and letters: [nan, m, exact], the value  *)
(* being m/100 when exact and strictly between m/100 and (m+1)/100 in magnitude otherwise. *)
ParseNumber(s) ==
  LET neg == Len(s) > 0 /\ s[1] = "-"
      body == IF neg THEN Tail(s) ELSE s
      dots == {i \in 1..Len(body) : body[i] = "."}
      dot == IF dots = {} THEN Len(body) + 1 ELSE CHOOSE i \in dots : TRUE
      ip == SubSeq(body, 1, dot - 1)
      fp == SubSeq(body, dot + 1, Len(body))
      ok == /\ Len(ip) + Len(fp) > 0
            /\ Cardinality(dots) <= 1
            /\ \A i \in 1..Len(body) : i = dot \/ IsDigit(body[i])
      f1 == IF Len(fp) >= 1 THEN DigitVal(fp[1]) ELSE 0
      f2 == IF Len(fp) >= 2 THEN DigitVal(fp[2]) ELSE 0
      mag == SatVal(ip) * 100 + f1 * 10 + f2
      exact == \A i \in 3..Len(fp) : fp[i] = "0"
  IN IF ~ok THEN [nan |-> TRUE, m |-> 0, exact |-> FALSE, neg |-> FALSE]
     ELSE [nan |-> FALSE, m |-> IF neg THEN -mag ELSE mag, exact |-> exact, neg |-> neg]

(***************************************************************************)
(* validateExcelStructure.  A record is a function from the ten column     *)
(* names to cells, Undef standing for a key the record does not have.  An  *)
(* error string is modelled by its parts: its kind, the 1-based row, the   *)
(* column, the missing-column list and the sum in thousandths.             *)
(***************************************************************************)
requiredColumns == <<"DEPTH", "%SH", "%SS", "%LS", "%DOL", "%ANH", "%Coal", "%Salt", "DT", "GR">>
percentageColumns == <<"%SH", "%SS", "%LS", "%DOL", "%ANH", "%Coal", "%Salt">>
numericColumns == <<"DT", "GR">>
Cols == {requiredColumns[i] : i \in 1..Len(requiredColumns)}

Err(kind, row, col, cols, sum) == [kind |-> kind, row |-> row, col |-> col, cols |-> cols, sum |-> sum]
EmptyFileError == Err("empty", 0, "", <<>>, 0)
MissingColumnsError(cols) == Err("missing", 0, "", cols, 0)
DepthError(n) == Err("depth", n, "DEPTH", <<>>, 0)
PercentageError(n, col) == Err("percentage", n, col, <<>>, 0)
NumericError(n, col) == Err("numeric", n, col, <<>>, 0)
SumError(n, sum) == Err("sum", n, "", <<>>, sum)

(* Object.keys(record) *)
Keys(row) == {c \in Cols : row[c].t # "undefined"}

(* x !== null && x !== undefined *)
Present(cell) == cell.t # "null" /\ cell.t # "undefined"

(* typeof x !== 'number' || x < 0 *)
DepthInvalid(cell) == cell.t # "number" \/ cell.m < 0
(* typeof x !== 'number' || x < 0 || x > 1 *)
PercentageInvalid(cell) == cell.t # "number" \/ cell.m < 0 \/ cell.m > 100
(* typeof x !== 'number' *)
NumericInvalid(cell) == cell.t # "number"

(* (x || 0): undefined, null, 0 and the empty string are falsy. *)
OrZero(cell) ==
  IF cell.t = "number" THEN Lit(cell.m)
  ELSE IF cell.t = "string" /\ cell.s # <<>> THEN JStr(cell.s)
  ELSE JNum(0, 0)

RECURSIVE SumTerms(_, _)
SumTerms(row, k) ==
  IF k = 1 THEN OrZero(row[percentageColumns[1]])
  ELSE JsAdd(SumTerms(row, k - 1), OrZero(row[percentageColumns[k]]))

rockCompositionSum(row) == SumTerms(row, Len(percentageColumns))

(* The tolerance of the sum check, in hundredths: 0.01. *)
SumTolerance == 1

(* Math.abs(sum - 1) > 0.01 on a number. *)
NumOutOfTolerance(v) == NumGt(NumAbs(NumSub(v, Lit(100))), Lit(SumTolerance))

(* Math.abs(p - 1) > 0.01 for the number p a string converts to: NaN compares false. *)
ParsedOutOfTolerance(p) ==
  /\ ~p.nan
  /\ IF p.exact /\ ~p.neg /\ p.m < 1600 THEN NumOutOfTolerance(Lit(p.m))
     ELSE p.neg \/ p.m < 100 - SumTolerance \/ p.m >= 100 + SumTolerance

(* Math.abs(sum - 1) > 0.01: a string is first converted to a number. *)
OutOfTolerance(sum) ==
  IF sum.t = "number" THEN NumOutOfTolerance(sum)
  ELSE ParsedOutOfTolerance(ParseNumber(sum.s))

(* sum.toFixed(3), in thousandths: the rounding error of a sum is far below 0.0005. *)
ToFixed3(v) == 10 * v.m

RowFieldErrors(row, n) ==
  LET depth == IF Present(row["DEPTH"]) /\ DepthInvalid(row["DEPTH"])
               THEN <<DepthError(n)>> ELSE <<>>
      pct[k \in 0..Len(percentageColumns)] ==
        IF k = 0 THEN <<>>
        ELSE LET col == percentageColumns[k]
             IN pct[k - 1] \o (IF Present(row[col]) /\ PercentageInvalid(row[col])
                                THEN <<PercentageError(n, col)>> ELSE <<>>)
      num[k \in 0..Len(numericColumns)] ==
        IF k = 0 THEN <<>>
        ELSE LET col == numericColumns[k]
             IN num[k - 1] \o (IF Present(row[col]) /\ NumericInvalid(row[col])
                                THEN <<NumericError(n, col)>> ELSE <<>>)
  IN depth \o pct[Len(percentageColumns)] \o num[Len(numericColumns)]

(* The sum check of one row: the template literal calls sum.toFixed(3), which is a *)
(* TypeError when the sum is a string.                                             *)
SumCheck(sum, n) ==
  IF ~OutOfTolerance(sum) THEN [threw |-> FALSE, errors |-> <<>>]
  ELSE IF sum.t = "string" THEN [threw |-> TRUE, errors |-> <<>>]
  ELSE [threw |-> FALSE, errors |-> <<SumError(n, ToFixed3(sum))>>]

RowSumCheck(row, n) == SumCheck(rockCompositionSum(row), n)

(* data.forEach: the errors pushed for rows 1..k, or the exception that ended the loop. *)
ValidateRow(before, fieldErrors, check) ==
  IF before.threw THEN before
  ELSE IF check.threw THEN [threw |-> TRUE, errors |-> <<>>]
  ELSE [threw |-> FALSE, errors |-> before.errors \o fieldErrors \o check.errors]

RECURSIVE ValidateRows(_, _)
ValidateRows(data, k) ==
  IF k = 0 THEN [threw |-> FALSE, errors |-> <<>>]
  ELSE ValidateRow(ValidateRows(data, k - 1), RowFieldErrors(data[k], k), RowSumCheck(data[k], k))

(* The absent argument (null, undefined): !data. *)
NoData == <<[c \in {"null"} |-> Null]>>
IsNoData(data) == data = <<>> \/ (Len(data) = 1 /\ DOMAIN data[1] = {"null"})

(* The returned object, or threw = TRUE when the call ends in an exception.  totalRows  *)
(* and columns are sequences of at most one element: empty when the property is absent. *)
(* const missingColumns = requiredColumns.filter(col => !headers.includes(col)) *)
MissingColumns(headers) == SelectSeq(requiredColumns, LAMBDA c : c \notin headers)

(* The error pushed by the missing-column check, if any. *)
MissingCheck(missingColumns) ==
  IF Len(missingColumns) > 0 THEN <<MissingColumnsError(missingColumns)>> ELSE <<>>

ValidationResult(data, headers, errors) ==
  [threw |-> FALSE, isValid |-> Len(errors) = 0, errors |-> errors,
   totalRows |-> <<Len(data)>>, columns |-> <<headers>>]

ValidationOf(data, headers, rows) ==
  IF rows.threw
  THEN [threw |-> TRUE, isValid |-> FALSE, errors |-> <<>>, totalRows |-> <<>>, columns |-> <<>>]
  ELSE ValidationResult(data, headers, MissingCheck(MissingColumns(headers)) \o rows.errors)

validateExcelStructure(data) ==
  IF IsNoData(data)
  THEN [threw |-> FALSE, isValid |-> FALSE, errors |-> <<EmptyFileError>>,
        totalRows |-> <<>>, columns |-> <<>>]
  ELSE ValidationOf(data, Keys(data[1]), ValidateRows(data, Len(data)))

(***************************************************************************)
(* processExcelData.                                                       *)
(***************************************************************************)
(* parseFloat on a string: the value of its longest prefix that is a decimal literal. *)
LongestPrefix(s, ks) ==
  IF ks = {} THEN [nan |-> TRUE, m |-> 0]
  ELSE [nan |-> FALSE,
        m |-> ParseNumber(SubSeq(s, 1, CHOOSE x \in ks : \A y \in ks : y <= x)).m]

ParseFloatStr(s) == LongestPrefix(s, {k \in 1..Len(s) : ~ParseNumber(SubSeq(s, 1, k)).nan})

(* parseFloat(x): x is converted to a string first, and a number reads back as itself. *)
parseFloat(cell) ==
  IF cell.t = "number" THEN [nan |-> FALSE, m |-> cell.m]
  ELSE IF cell.t = "string" THEN ParseFloatStr(cell.s)
  ELSE [nan |-> TRUE, m |-> 0]

(* A coercion of DEPTH, DT and GR that defaults to 0 as the category fields do. *)
ParseOrZeroForNull(cell) ==
  IF parseFloat(cell).nan \/ parseFloat(cell).m = 0 THEN Num(0) ELSE Num(parseFloat(cell).m)

(* parseFloat(x) || null: NaN and 0 are falsy. *)
OrNull(p) == IF p.nan \/ p.m = 0 THEN Null ELSE Num(p.m)
ParseOrNull(cell) == OrNull(parseFloat(cell))

(* parseFloat(x) || 0 *)
OrNumZero(p) == IF p.nan \/ p.m = 0 THEN Num(0) ELSE Num(p.m)
ParseOrZero(cell) == OrNumZero(parseFloat(cell))

rockTypeNames == <<"Shale", "Sandstone", "Limestone", "Dolomite", "Anhydrite", "Coal", "Salt">>
rockTypeFields == <<"SH", "SS", "LS", "DOL", "ANH", "Coal", "Salt">>

(* A reduce whose comparison is >=, which keeps the earlier key on a tie. *)
RECURSIVE ReduceKeepFirst(_, _)
ReduceKeepFirst(vals, k) ==
  IF k = 1 THEN 1
  ELSE LET a == ReduceKeepFirst(vals, k - 1)
       IN IF vals[a] >= vals[k] THEN a ELSE k

(* Object.keys(rockTypes).reduce((a, b) => rockTypes[a] > rockTypes[b] ? a : b) over the *)
(* first k keys: the index of the key kept.                                              *)
RECURSIVE ReduceDominant(_, _)
ReduceDominant(vals, k) ==
  IF k = 1 THEN 1
  ELSE LET a == ReduceDominant(vals, k - 1)
       IN IF vals[a] > vals[k] THEN a ELSE k

(* The processed row with the 7 parsed percentages pct and their values rockTypes. *)
processedRow(depth, pct, dt, gr, index, rockTypes) ==
  [DEPTH |-> depth,
   SH |-> pct[1], SS |-> pct[2], LS |-> pct[3], DOL |-> pct[4],
   ANH |-> pct[5], Coal |-> pct[6], Salt |-> pct[7],
   DT |-> dt,
   GR |-> gr,
   rowIndex |-> index,
   dominantRockType |-> rockTypeNames[ReduceDominant(rockTypes, Len(percentageColumns))]]

ParsedPercentages(row) ==
  [k \in 1..Len(percentageColumns) |-> ParseOrZero(row[percentageColumns[k]])]

ValuesOf(pct) == [k \in 1..Len(pct) |-> pct[k].m]

processRow(row, index) ==
  processedRow(ParseOrNull(row["DEPTH"]), ParsedPercentages(row), ParseOrNull(row["DT"]),
               ParseOrNull(row["GR"]), index, ValuesOf(ParsedPercentages(row)))

processExcelData(data) == [i \in 1..Len(data) |-> processRow(data[i], i)]

(***************************************************************************)
(* POST /api/upload.  The uploaded file is described by what the handler   *)
(* reads of it: whether multer attached a file, the extension of its       *)
(* original name, whether XLSX.readFile decodes it, the number of sheet    *)
(* names, whether the first sheet exists, and the rows sheet_to_json       *)
(* returns: a header array and the data arrays below it, empty cells being *)
(* null.  The handler is one operator from the file to its outcome: the    *)
(* response, the calls it made in order and the validator's result.        *)
(***************************************************************************)
LowerCaseLetters == <<"a", "b", "c", "d", "e", "f", "g", "h", "i", "j", "k", "l", "m", "n", "o", "p", "q", "r", "s", "t", "u", "v", "w", "x", "y", "z">>
UpperCaseLetters == <<"A", "B", "C", "D", "E", "F", "G", "H", "I", "J", "K", "L", "M", "N", "O", "P", "Q", "R", "S", "T", "U", "V", "W", "X", "Y", "Z">>

(* String.prototype.toLowerCase *)
toLowerCase(s) ==
  [i \in 1..Len(s) |->
     IF \E k \in 1..26 : UpperCaseLetters[k] = s[i]
     THEN LowerCaseLetters[CHOOSE k \in 1..26 : UpperCaseLetters[k] = s[i]]
     ELSE s[i]]

allowedExtensions == {<<".", "x", "l", "s", "x">>, <<".", "x", "l", "s">>}

(* rawData: header is <<>> for a sheet without content rows, else <<the header array>>. *)
RawData(header, rows) == [header |-> header, rows |-> rows]
(* A row count that is one too many. *)
RawLengthOffByOne(rawData) == Len(rawData.header) + Len(rawData.rows) + 1

(* rawData.length *)
RawLength(rawData) == Len(rawData.header) + Len(rawData.rows)

UploadedFile(present, ext, readable, sheetNames, worksheet, rawData) ==
  [present |-> present, ext |-> ext, readable |-> readable, sheetNames |-> sheetNames,
   worksheet |-> worksheet, rawData |-> rawData]

(* headers.forEach((header, index) => { obj[header] = row[index]; }) *)
ToRecord(headers, row) ==
  [c \in Cols |->
     LET at == {i \in 1..Len(headers) : headers[i] = c}
     IN IF at = {} THEN Undef
        ELSE LET i == CHOOSE x \in at : \A y \in at : y <= x
             IN IF i <= Len(row) THEN row[i] ELSE Undef]

(* rawData.slice(1).map(row => obj) *)
dataRows(rawData) ==
  [i \in 1..Len(rawData.rows) |-> ToRecord(rawData.header[1], rawData.rows[i])]

(* A plain string in a details list. *)
Note(text) == Err("text", 0, text, <<>>, 0)

suggestions ==
  << "Ensure your Excel file contains all required columns: DEPTH, %SH, %SS, %LS, %DOL, %ANH, %Coal, %Salt, DT, GR",
     "Check that percentage values are between 0 and 1",
     "Verify that DEPTH values are positive numbers",
     "Ensure DT and GR values are numeric" >>

FormatHint ==
  "Please ensure your Excel file follows the required format with columns: DEPTH, %SH, %SS, %LS, %DOL, %ANH, %Coal, %Salt, DT, GR"

(* A response: status 0 stands for no response sent.  details is a list (detailsIsList) *)
(* or a single string; body is <<>> or <<the success payload>>.                         *)
Response(status, error, message, detailsIsList, details, hints, body) ==
  [status |-> status, error |-> error, message |-> message, detailsIsList |-> detailsIsList,
   details |-> details, suggestions |-> hints, body |-> body]

NoResponse == Response(0, "", "", FALSE, <<>>, <<>>, <<>>)

PosInfinity == [t |-> "infinity", m |-> 1, s |-> <<>>]
NegInfinity == [t |-> "infinity", m |-> -1, s |-> <<>>]

(* processedData.map(row => row.DEPTH).filter(d => d !== null) *)
(* The depths of all rows, null taken as 0 as Math.min and Math.max take it. *)
DepthsNullAsZero(processedData) ==
  [i \in 1..Len(processedData) |->
     IF processedData[i].DEPTH.t = "null" THEN Num(0) ELSE processedData[i].DEPTH]

NonNullDepths(processedData) ==
  SelectSeq([i \in 1..Len(processedData) |-> processedData[i].DEPTH], LAMBDA d : d.t # "null")

(* Math.min(...depths), Infinity for no argument. *)
MathMin(depths) ==
  IF depths = <<>> THEN PosInfinity
  ELSE LET i == CHOOSE x \in 1..Len(depths) : \A y \in 1..Len(depths) : depths[x].m <= depths[y].m
       IN depths[i]

(* Math.max(...depths), -Infinity for no argument. *)
MathMax(depths) ==
  IF depths = <<>> THEN NegInfinity
  ELSE LET i == CHOOSE x \in 1..Len(depths) : \A y \in 1..Len(depths) : depths[y].m <= depths[x].m
       IN depths[i]

(* reduce((sum, row) => sum + (row.X || 0), 0) over values that are integers, so that *)
(* the double sum is exact: the sum in hundredths.                                   *)
RECURSIVE SumOrZero(_)
SumOrZero(cells) ==
  IF cells = <<>> THEN 0
  ELSE SumOrZero(SubSeq(cells, 1, Len(cells) - 1))
       + (IF cells[Len(cells)].t = "number" THEN cells[Len(cells)].m ELSE 0)

(* The number of cells that are not null. *)
RECURSIVE CountNonNull(_)
CountNonNull(cells) ==
  IF cells = <<>> THEN 0
  ELSE CountNonNull(Tail(cells)) + (IF Head(cells).t = "number" THEN 1 ELSE 0)

(* A divisor that skips the null values. *)
NonNullLength(cells) == IF CountNonNull(cells) = 0 THEN 1 ELSE CountNonNull(cells)

(* processedData.length *)
TotalLength(cells) == Len(cells)

(* sum / processedData.length: the double nearest to num/den hundredths. *)
Average(cells) == [num |-> SumOrZero(cells), den |-> TotalLength(cells)]

(* A distribution that is zero-filled: an entry for each of the 7 categories. *)
ZeroFilledDistribution(processedData) ==
  [k \in 1..Len(rockTypeNames) |->
     [type |-> rockTypeNames[k],
      count |-> Cardinality({i \in 1..Len(processedData) :
                               processedData[i].dominantRockType = rockTypeNames[k]})]]

(* stats.rockTypeDistribution[rockType] = (... || 0) + 1 over the rows in order: the keys *)
(* in insertion order with their counts.                                                  *)
RECURSIVE rockTypeDistribution(_)
rockTypeDistribution(processedData) ==
  IF processedData = <<>> THEN <<>>
  ELSE LET before == rockTypeDistribution(SubSeq(processedData, 1, Len(processedData) - 1))
           rockType == processedData[Len(processedData)].dominantRockType
           at == {i \in 1..Len(before) : before[i].type = rockType}
       IN IF at = {} THEN Append(before, [type |-> rockType, count |-> 1])
          ELSE [i \in 1..Len(before) |->
                  IF i \in at THEN [type |-> rockType, count |-> before[i].count + 1]
                  ELSE before[i]]

stats(processedData) ==
  [totalRows |-> Len(processedData),
   depthRange |-> [min |-> MathMin(NonNullDepths(processedData)),
                   max |-> MathMax(NonNullDepths(processedData))],
   rockTypeDistribution |-> rockTypeDistribution(processedData),
   averages |-> [DT |-> Average([i \in 1..Len(processedData) |-> processedData[i].DT]),
                 GR |-> Average([i \in 1..Len(processedData) |-> processedData[i].GR])]]

(* A gate that rejects only on a missing column. *)
RejectedOnMissingColumns(validation) ==
  \E i \in 1..Len(validation.errors) : validation.errors[i].kind = "missing"

(* if (!validation.isValid) *)
Rejected(validation) == ~validation.isValid

(* details: validation.errors *)
ValidationDetails(validation) == validation.errors

UploadOutcome(res, calls, validation) == [res |-> res, calls |-> calls, validation |-> validation]

(* The calls made up to and including the validator's. *)
readCalls == <<"XLSX.readFile", "sheet_to_json", "validateExcelStructure">>

(* The 200 body: data: { rows, totalRows, statistics, validation }. *)
UploadData(processedData, validation) ==
  [rows |-> processedData,
   totalRows |-> Len(processedData),
   statistics |-> stats(processedData),
   validation |-> [isValid |-> TRUE,
                   columnsFound |-> validation.columns[1],
                   warnings |-> validation.errors]]

(* The handler from the processed rows on. *)
AfterProcessing(validation, processedData) ==
  IF Len(processedData) = 0
  THEN UploadOutcome(
         Response(400, "Invalid Excel file structure", "", TRUE,
                  <<Note("Excel file contains no data rows. Please ensure your file contains at least one row of data.")>>,
                  <<>>, <<>>),
         readCalls \o <<"processExcelData", "fs.unlinkSync">>, <<validation>>)
  ELSE UploadOutcome(
         Response(200, "", "File uploaded and processed successfully", FALSE, <<>>, <<>>,
                  <<UploadData(processedData, validation)>>),
         readCalls \o <<"processExcelData", "stats", "db.run", "fs.unlinkSync">>,
         <<validation>>)

(* A handler whose catch (error) answers without deleting the file. *)
AfterValidationNoCleanup(rows, validation) ==
  IF validation.threw
  THEN UploadOutcome(Response(500, "Failed to process file",
                              "rockCompositionSum.toFixed is not a function", FALSE,
                              <<Note(FormatHint)>>, <<>>, <<>>),
                     readCalls, <<validation>>)
  ELSE IF Rejected(validation)
  THEN UploadOutcome(Response(400, "Invalid Excel file structure", "", TRUE,
                              ValidationDetails(validation), suggestions, <<>>),
                     readCalls \o <<"fs.unlinkSync">>, <<validation>>)
  ELSE AfterProcessing(validation, processExcelData(rows))

(* The handler from the validator's result on.  A validator that threw lands in catch  *)
(* (error) with a TypeError, whose message names none of the 400 cases.                *)
AfterValidation(rows, validation) ==
  IF validation.threw
  THEN UploadOutcome(Response(500, "Failed to process file",
                              "rockCompositionSum.toFixed is not a function", FALSE,
                              <<Note(FormatHint)>>, <<>>, <<>>),
                     readCalls \o <<"fs.unlinkSync">>, <<validation>>)
  ELSE IF Rejected(validation)
  THEN UploadOutcome(Response(400, "Invalid Excel file structure", "", TRUE,
                              ValidationDetails(validation), suggestions, <<>>),
                     readCalls \o <<"fs.unlinkSync">>, <<validation>>)
  ELSE AfterProcessing(validation, processExcelData(rows))

(* The handler of POST /api/upload on a request carrying the file. *)
uploadHandler(file) ==
  IF ~file.present
  THEN UploadOutcome(Response(400, "No file uploaded", "", FALSE,
                              <<Note("Please select an Excel file to upload")>>, <<>>, <<>>),
                     <<>>, <<>>)
  ELSE IF toLowerCase(file.ext) \notin allowedExtensions
  THEN UploadOutcome(Response(400, "Only Excel files are allowed", "", FALSE,
                              <<Note("Please upload a file with .xlsx or .xls extension")>>, <<>>, <<>>),
                     <<"fs.unlinkSync">>, <<>>)
  ELSE IF ~file.readable
  THEN UploadOutcome(Response(400, "Invalid Excel file format",
                              "Please ensure you are uploading a valid Excel file (.xlsx or .xls)",
                              FALSE, <<Note("xlsxError.message")>>, <<>>, <<>>),
                     <<"XLSX.readFile", "fs.unlinkSync">>, <<>>)
  ELSE IF file.sheetNames = 0
  THEN UploadOutcome(Response(400, "Invalid Excel file structure", "", TRUE,
                              <<Note("Excel file contains no worksheets")>>, <<>>, <<>>),
                     <<"XLSX.readFile", "fs.unlinkSync">>, <<>>)
  ELSE IF ~file.worksheet
  THEN UploadOutcome(Response(400, "Invalid Excel file structure", "", TRUE,
                              <<Note("Unable to read worksheet data")>>, <<>>, <<>>),
                     <<"XLSX.readFile", "fs.unlinkSync">>, <<>>)
  ELSE IF RawLength(file.rawData) = 0
  THEN UploadOutcome(Response(400, "Invalid Excel file structure", "", TRUE,
                              <<Note("Excel file is empty or contains no data")>>, <<>>, <<>>),
                     <<"XLSX.readFile", "sheet_to_json", "fs.unlinkSync">>, <<>>)
  ELSE IF RawLength(file.rawData) < 2
  THEN UploadOutcome(Response(400, "Invalid Excel file structure", "", TRUE,
                              <<Note("Excel file must contain at least a header row and one data row")>>,
                              <<>>, <<>>),
                     <<"XLSX.readFile", "sheet_to_json", "fs.unlinkSync">>, <<>>)
  ELSE AfterValidation(dataRows(file.rawData), validateExcelStructure(dataRows(file.rawData)))

(***************************************************************************)
(* POST /api/chat.  A request body is the record of its five properties.   *)
(* wellData and uploadedData are objects (t = "object") or absent; an      *)
(* optional property of an object is <<>> when absent and <<value>> when   *)
(* present.  A response text is modelled by the sentence it instantiates   *)
(* and the pieces interpolated into it, each a name or a rendered number.  *)
(***************************************************************************)
Well(t, name, depth, status) == [t |-> t, name |-> name, depth |-> depth, status |-> status]
NoWell == Well("undefined", "", 0, Undef)

Dataset(t, rows, statistics) == [t |-> t, rows |-> rows, statistics |-> statistics]
NoDataset == Dataset("undefined", <<>>, <<>>)

Statistics(depthRange, distribution, averages) ==
  [depthRange |-> depthRange, rockTypeDistribution |-> distribution, averages |-> averages]

Insights(rockComposition, drillingParameters, anomalies) ==
  [rockComposition |-> rockComposition, drillingParameters |-> drillingParameters,
   anomalies |-> anomalies]

(* enhancedContext: dataInsights is <<>> or <<Insights>>.  rockComposition is "absent",   *)
(* "complete" or "noDominantRockTypes"; drillingParameters is "absent", "complete" or     *)
(* "noDt"; anomalies is the list of anomaly types.                                        *)
EnhancedContext(t, dataInsights, messageType) ==
  [t |-> t, dataInsights |-> dataInsights, messageType |-> messageType]
NoEnhancedContext == EnhancedContext("undefined", <<>>, "")

Body(message, wellData, uploadedData, sessionId, enhancedContext) ==
  [message |-> message, wellData |-> wellData, uploadedData |-> uploadedData,
   sessionId |-> sessionId, enhancedContext |-> enhancedContext]

(* JSON.stringify of a number: Infinity and -Infinity become null. *)
JSONValue(v) == IF v.t = "infinity" THEN Null ELSE v

(* The uploadedData a client holds after a successful upload: the parsed response body. *)
DatasetOfUpload(payload) ==
  Dataset("object", <<payload.rows>>,
          << Statistics(<<[min |-> JSONValue(payload.statistics.depthRange.min),
                          max |-> JSONValue(payload.statistics.depthRange.max)]>>,
                        <<payload.statistics.rockTypeDistribution>>,
                        <<payload.statistics.averages>>) >>)

(* !x *)
Falsy(v) ==
  \/ v.t \in {"undefined", "null"}
  \/ v.t = "string" /\ v.s = <<>>
  \/ v.t = "number" /\ v.m = 0

(* A test that only notices a missing property. *)
IsUndefined(v) == v.t = "undefined"

(* if (!message) *)
MessageMissing(message) == Falsy(message)

(* String.prototype.includes *)
Includes(s, kw) == \E i \in 0..(Len(s) - Len(kw)) : SubSeq(s, i + 1, i + Len(kw)) = kw

IncludesAny(s, kws) == \E kw \in kws : Includes(s, kw)

(* A depth branch that no message enters. *)
NoDepthKeywords == {}

depthKeywords == {<<"d", "e", "p", "t", "h">>}
compositionKeywords ==
  {<<"r", "o", "c", "k", " ", "c", "o", "m", "p", "o", "s", "i", "t", "i", "o", "n">>, <<"c", "o", "m", "p", "o", "s", "i", "t", "i", "o", "n">>, <<"s", "h", "a", "l", "e">>, <<"s", "a", "n", "d", "s", "t", "o", "n", "e">>, <<"l", "i", "m", "e", "s", "t", "o", "n", "e">>, <<"d", "o", "l", "o", "m", "i", "t", "e">>}
dtKeywords == {<<"d", "t">>, <<"d", "e", "l", "t", "a", " ", "t", "i", "m", "e">>}
grKeywords == {<<"g", "r">>, <<"g", "a", "m", "m", "a", " ", "r", "a", "y">>}
analysisKeywords == {<<"a", "n", "a", "l", "y", "z", "e">>, <<"a", "n", "a", "l", "y", "s", "i", "s">>}
recommendationKeywords == {<<"r", "e", "c", "o", "m", "m", "e", "n", "d">>, <<"s", "u", "g", "g", "e", "s", "t", "i", "o", "n">>, <<"a", "d", "v", "i", "c", "e">>}
problemKeywords == {<<"p", "r", "o", "b", "l", "e", "m">>, <<"i", "s", "s", "u", "e">>, <<"c", "h", "a", "l", "l", "e", "n", "g", "e">>, <<"t", "r", "o", "u", "b", "l", "e">>}

Piece(name, digits) == [name |-> name, digits |-> digits]
Named(name) == Piece(name, <<>>)
Digits(digits) == Piece("", digits)
Text(id, args) == [id |-> id, args |-> args]

Returned(text) == [threw |-> FALSE, text |-> text]
Thrown == [threw |-> TRUE, text |-> Text("TypeError", <<>>)]

(* A value in tenths, printed with one decimal. *)
TenthsStr(t) ==
  (IF t < 0 THEN <<"-">> ELSE <<>>)
  \o IntDigits((IF t < 0 THEN -t ELSE t) \div 10)
  \o <<".", DigitChars[((IF t < 0 THEN -t ELSE t) % 10) + 1]>>

(* x.toFixed(1) of the double [m, e]: the nearest tenth, a decimal tie going the way the *)
(* double lies from it and upwards when the double is the tie itself.                    *)
ToFixed1(v) ==
  LET neg == ~IsPos(v.m, v.e) /\ ~(v.m = 0 /\ v.e = 0)
      a == IF neg THEN -(v.m) ELSE v.m
      ae == IF neg THEN -(v.e) ELSE v.e
      t == IF a % 10 = 5 THEN (IF ae >= 0 THEN a \div 10 + 1 ELSE a \div 10)
           ELSE (a + 5) \div 10
  IN TenthsStr(IF neg THEN -t ELSE t)

(* (num / den).toFixed(1) for the double nearest num/den hundredths, num >= 0. *)
QuotientToFixed1(num, den) == TenthsStr((2 * num + 10 * den) \div (20 * den))

(* ((count / total) * 100).toFixed(1), for shares that meet no decimal tie (totals up to 4); *)
(* 0/0 is NaN and n/0 is Infinity.                                                        *)
PercentToFixed1(count, total) ==
  IF total = 0 /\ count = 0 THEN <<"N", "a", "N">>
  ELSE IF total = 0 THEN <<"I", "n", "f", "i", "n", "i", "t", "y">>
  ELSE TenthsStr((2000 * count + total) \div (2 * total))

(* `${x}` of null or a number with at most two decimals. *)
Show(v) == IF v.t = "null" THEN <<"n", "u", "l", "l">> ELSE DecStr(v.m)

(* null and numbers in arithmetic: null is 0. *)
ToNumber(v) == IF v.t = "number" THEN v.m ELSE 0

(* Object.values(rockDist).reduce((sum, count) => sum + count, 0) *)
RECURSIVE totalIntervals(_)
totalIntervals(rockDist) ==
  IF rockDist = <<>> THEN 0 ELSE rockDist[1].count + totalIntervals(Tail(rockDist))

(* Object.entries(rockDist).sort(([,a], [,b]) => b - a): a stable sort by falling count. *)
RECURSIVE SortByCount(_)
SortByCount(entries) ==
  IF entries = <<>> THEN <<>>
  ELSE LET most == CHOOSE i \in 1..Len(entries) :
                     /\ \A j \in 1..Len(entries) : entries[j].count <= entries[i].count
                     /\ \A j \in 1..(i - 1) : entries[j].count < entries[i].count
       IN <<entries[most]>>
          \o SortByCount(SubSeq(entries, 1, most - 1) \o SubSeq(entries, most + 1, Len(entries)))

(* rockDist.KEY || 0 *)
CountOf(rockDist, key) ==
  LET at == {i \in 1..Len(rockDist) : rockDist[i].type = key}
  IN IF at = {} THEN 0 ELSE rockDist[CHOOSE i \in at : TRUE].count

(* generateDataInsights(uploadedData), called with rows present. *)
generateDataInsights(uploadedData) ==
  IF uploadedData.t # "object" \/ uploadedData.rows = <<>> \/ uploadedData.statistics = <<>>
  THEN Returned(Text("insufficient data for analysis", <<>>))
  ELSE LET st == uploadedData.statistics[1]
       IN IF st.depthRange = <<>> \/ st.rockTypeDistribution = <<>> \/ st.averages = <<>>
          THEN Thrown
          ELSE LET range == st.depthRange[1]
                   depthSpan == ToNumber(range.max) - ToNumber(range.min)
                   sorted == SortByCount(st.rockTypeDistribution[1])
                   dominant == IF sorted = <<>> THEN <<>>
                               ELSE << Named(sorted[1].type),
                                       Digits(PercentToFixed1(sorted[1].count,
                                                              Len(uploadedData.rows[1]))) >>
                   dt == IF st.averages[1].DT.num # 0
                         THEN << Named("DT averages"),
                                 Digits(QuotientToFixed1(st.averages[1].DT.num, st.averages[1].DT.den)) >>
                         ELSE <<>>
                   gr == IF st.averages[1].GR.num # 0
                         THEN << Named("GR averages"),
                                 Digits(QuotientToFixed1(st.averages[1].GR.num, st.averages[1].GR.den)) >>
                         ELSE <<>>
               IN Returned(Text("insights",
                                <<Digits(ToFixed1(JNum(depthSpan, 0)))>> \o dominant \o dt \o gr))

(* generateDrillingRecommendations(uploadedData), called with statistics present. *)
generateDrillingRecommendations(uploadedData) ==
  IF uploadedData.t # "object" \/ uploadedData.statistics = <<>>
  THEN Returned(Text("Upload data required for specific recommendations.", <<>>))
  ELSE LET st == uploadedData.statistics[1]
       IN IF st.rockTypeDistribution = <<>> \/ st.averages = <<>>
          THEN Thrown
          ELSE LET rockDist == st.rockTypeDistribution[1]
                   total == totalIntervals(rockDist)
                   avgDT == st.averages[1].DT
                   avgGR == st.averages[1].GR
                   (* (x / total) * 100 > p, false for 0/0; the double product equals the *)
                   (* exact share for the totals of the model (up to 4 intervals)         *)
                   shale == IF total > 0 /\ 100 * CountOf(rockDist, "SH") > 40 * total
                            THEN <<Named("High shale content detected")>> ELSE <<>>
                   sandstone == IF total > 0 /\ 100 * CountOf(rockDist, "SS") > 30 * total
                                THEN <<Named("Significant sandstone intervals")>> ELSE <<>>
                   carbonate ==
                     IF total > 0 /\ 100 * (CountOf(rockDist, "LS") + CountOf(rockDist, "DOL")) > 25 * total
                     THEN <<Named("Carbonate formations present")>> ELSE <<>>
                   dt == IF avgDT.num > 10000 * avgDT.den THEN <<Named("High DT values")>>
                         ELSE IF avgDT.num < 6000 * avgDT.den THEN <<Named("Low DT values")>>
                         ELSE <<>>
                   gr == IF avgGR.num > 10000 * avgGR.den THEN <<Named("High GR readings")>>
                         ELSE <<>>
                   recommendations == shale \o sandstone \o carbonate \o dt \o gr
               IN Returned(Text("Drilling recommendations based on your data",
                                IF recommendations = <<>>
                                THEN <<Named("Formation appears relatively uniform")>>
                                ELSE recommendations))

(* A sum of the 7 values as percentages: fractions times 100. *)
totalCompositionPercent(row) ==
  LET cells == <<row.SH, row.SS, row.LS, row.DOL, row.ANH, row.Coal, row.Salt>>
      f[k \in 0..Len(cells)] ==
        IF k = 0 THEN JNum(0, 0)
        ELSE JNum(f[k - 1].m + (IF cells[k].t = "number" THEN 100 * cells[k].m ELSE 0), 0)
  IN f[Len(cells)]

(* row[`%${type}`] || row[type] || 0 summed over the 7 rock types of a processed row,   *)
(* which has no %-keys.  Sums of quarters are exact doubles at any magnitude.           *)
totalComposition(row) ==
  LET cells == <<row.SH, row.SS, row.LS, row.DOL, row.ANH, row.Coal, row.Salt>>
      f[k \in 0..Len(cells)] ==
        IF k = 0 THEN JNum(0, 0)
        ELSE NumAdd(f[k - 1], IF cells[k].t = "number" THEN Lit(cells[k].m) ELSE JNum(0, 0))
  IN f[Len(cells)]

(* The anomalies of one row whose composition adds up to total, in order. *)
AnomaliesOf(row, total) ==
  LET composition ==
        (* Math.abs(totalComposition - 100) > 15 *)
        IF total.m - 10000 > 1500 \/ 10000 - total.m > 1500
        THEN <<[depth |-> row.DEPTH, type |-> "composition_error",
                description |-> <<Digits(Show(row.DEPTH)), Digits(ToFixed1(total))>>]>>
        ELSE <<>>
      (* row.DT && (row.DT < 30 || row.DT > 250): null and 0 are falsy *)
      dt == IF row.DT.t = "number" /\ row.DT.m # 0 /\ (row.DT.m < 3000 \/ row.DT.m > 25000)
            THEN <<[depth |-> row.DEPTH, type |-> "dt_extreme",
                    description |-> <<Digits(Show(row.DEPTH)), Digits(Show(row.DT))>>]>>
            ELSE <<>>
      (* row.GR && (row.GR < 0 || row.GR > 400) *)
      gr == IF row.GR.t = "number" /\ row.GR.m # 0 /\ (row.GR.m < 0 \/ row.GR.m > 40000)
            THEN <<[depth |-> row.DEPTH, type |-> "gr_extreme",
                    description |-> <<Digits(Show(row.DEPTH)), Digits(Show(row.GR))>>]>>
            ELSE <<>>
  IN composition \o dt \o gr

RowAnomalies(row) == AnomaliesOf(row, totalComposition(row))

RECURSIVE AllAnomalies(_)
AllAnomalies(rows) ==
  IF rows = <<>> THEN <<>>
  ELSE AllAnomalies(SubSeq(rows, 1, Len(rows) - 1)) \o RowAnomalies(rows[Len(rows)])

(* detectDataAnomalies(rows): anomalies.slice(0, 5) *)
Slice(list, n) == SubSeq(list, 1, IF Len(list) < n THEN Len(list) ELSE n)

detectDataAnomalies(rows) == Slice(AllAnomalies(rows), 5)

(* A DT bucketing whose dense bucket includes 60. *)
dtInterpretationInclusive(avgDT) ==
  IF avgDT.num <= 6000 * avgDT.den THEN "dense, low-porosity"
  ELSE IF avgDT.num > 10000 * avgDT.den THEN "higher porosity"
  ELSE "moderate porosity"

(* The interpretation sentences of the DT and GR branches. *)
dtInterpretation(avgDT) ==
  IF avgDT.num < 6000 * avgDT.den THEN "dense, low-porosity"
  ELSE IF avgDT.num > 10000 * avgDT.den THEN "higher porosity"
  ELSE "moderate porosity"

grInterpretation(avgGR) ==
  IF avgGR.num < 5000 * avgGR.den THEN "clean formations"
  ELSE IF avgGR.num > 10000 * avgGR.den THEN "shale-rich"
  ELSE "mixed lithology"

HasStatistics(uploadedData) == uploadedData.t = "object" /\ uploadedData.statistics # <<>>
HasRows(uploadedData) == uploadedData.t = "object" /\ uploadedData.rows # <<>>

(* anomalies.slice(0, 3).map(a => a.description): a description is the sentence of its *)
(* anomaly type with the depth and the value it names.                                 *)
RECURSIVE AnomalyLines(_)
AnomalyLines(shown) ==
  IF shown = <<>> THEN <<>>
  ELSE AnomalyLines(SubSeq(shown, 1, Len(shown) - 1))
       \o <<Named(shown[Len(shown)].type)>> \o shown[Len(shown)].description

(* The answer of the problem branch to the anomalies found. *)
AnomalyAnswer(anomalies) ==
  IF Len(anomalies) > 0
  THEN Returned(Text("I've identified potential issues in your data",
                     <<Digits(IntDigits(Len(anomalies)))>> \o AnomalyLines(Slice(anomalies, 3))))
  ELSE Returned(Text("Your data appears consistent without obvious anomalies", <<>>))

(* generateFallbackResponse(message, wellData, uploadedData): the text returned, or the *)
(* TypeError that ends the call.                                                        *)
generateFallbackResponse(message, wellData, uploadedData) ==
  IF message.t # "string" THEN Thrown
  ELSE
  LET lowerMessage == toLowerCase(message.s)
  IN
  IF IncludesAny(lowerMessage, depthKeywords)
  THEN IF HasStatistics(uploadedData) /\ uploadedData.statistics[1].depthRange # <<>>
       THEN LET depthRange == uploadedData.statistics[1].depthRange[1]
            IN IF uploadedData.rows = <<>> THEN Thrown
               ELSE Returned(Text("Based on your uploaded data, the depth range spans",
                      << Digits(Show(depthRange.min)), Digits(Show(depthRange.max)),
                         Digits(ToFixed1(JNum(ToNumber(depthRange.max) - ToNumber(depthRange.min), 0))),
                         Digits(IntDigits(Len(uploadedData.rows[1]))) >>))
       ELSE IF wellData.t = "object"
       THEN IF wellData.status.t # "string" THEN Thrown
            ELSE Returned(Text("The current drilling depth for",
                   << Named(wellData.name), Digits(IntDigits(wellData.depth)),
                      Digits(toLowerCase(wellData.status.s)) >>))
       ELSE Returned(Text("Depth information is not available", <<>>))
  ELSE IF IncludesAny(lowerMessage, compositionKeywords)
  THEN IF HasStatistics(uploadedData) /\ uploadedData.statistics[1].rockTypeDistribution # <<>>
       THEN LET rockDist == uploadedData.statistics[1].rockTypeDistribution[1]
                total == totalIntervals(rockDist)
                sorted == SortByCount(rockDist)
                top == SubSeq(sorted, 1, IF Len(sorted) < 3 THEN Len(sorted) ELSE 3)
                rec[k \in 0..Len(top)] ==
                  IF k = 0 THEN <<>>
                  ELSE rec[k - 1] \o << Named(top[k].type),
                                        Digits(PercentToFixed1(top[k].count, total)) >>
            IN Returned(Text("Based on your uploaded data, the rock composition analysis shows",
                             rec[Len(top)] \o <<Digits(IntDigits(total))>>))
       ELSE Returned(Text("Rock composition data shows the geological makeup", <<>>))
  ELSE IF IncludesAny(lowerMessage, dtKeywords)
  THEN IF HasStatistics(uploadedData) /\ uploadedData.statistics[1].averages # <<>>
       THEN LET avgDT == uploadedData.statistics[1].averages[1].DT
            IN Returned(Text("Your uploaded data shows an average DT of",
                             << Digits(QuotientToFixed1(avgDT.num, avgDT.den)),
                                Named(dtInterpretation(avgDT)) >>))
       ELSE Returned(Text("DT (Delta Time) measurements indicate acoustic travel time", <<>>))
  ELSE IF IncludesAny(lowerMessage, grKeywords)
  THEN IF HasStatistics(uploadedData) /\ uploadedData.statistics[1].averages # <<>>
       THEN LET avgGR == uploadedData.statistics[1].averages[1].GR
            IN Returned(Text("Your uploaded data shows an average GR of",
                             << Digits(QuotientToFixed1(avgGR.num, avgGR.den)),
                                Named(grInterpretation(avgGR)) >>))
       ELSE Returned(Text("GR (Gamma Ray) readings measure natural radioactivity", <<>>))
  ELSE IF IncludesAny(lowerMessage, analysisKeywords)
  THEN IF HasRows(uploadedData)
       THEN LET insights == generateDataInsights(uploadedData)
            IN IF insights.threw THEN Thrown
               ELSE Returned(Text("Based on your data points",
                                  <<Digits(IntDigits(Len(uploadedData.rows[1]))), Named(insights.text.id)>>
                                  \o insights.text.args))
       ELSE Returned(Text("To provide detailed analysis, I need access to your drilling data", <<>>))
  ELSE IF IncludesAny(lowerMessage, recommendationKeywords)
  THEN IF HasStatistics(uploadedData)
       THEN generateDrillingRecommendations(uploadedData)
       ELSE Returned(Text("For specific drilling recommendations, I would need to analyze your formation data", <<>>))
  ELSE IF IncludesAny(lowerMessage, problemKeywords)
  THEN IF HasRows(uploadedData)
       THEN AnomalyAnswer(detectDataAnomalies(uploadedData.rows[1]))
       ELSE Returned(Text("Common drilling challenges include", <<>>))
  ELSE IF HasRows(uploadedData)
  THEN Returned(Text("I have access to your drilling data",
                     <<Digits(IntDigits(Len(uploadedData.rows[1])))>>))
  ELSE Returned(Text("I'm here to help with drilling data analysis", <<>>))

(* The system prompt, by the parts appended to it, or the TypeError that ends its building. *)
BuildContext(body) ==
  LET wellPart == IF body.wellData.t = "object" THEN <<"well">> ELSE <<>>
      ud == body.uploadedData
      ec == body.enhancedContext
      withData == HasRows(ud)
      statsThrows ==
        /\ withData /\ ud.statistics # <<>>
        /\ \/ ud.statistics[1].depthRange = <<>>
           \/ ud.statistics[1].averages = <<>>
           \/ ud.statistics[1].rockTypeDistribution = <<>>
      withInsights == withData /\ ec.t = "object" /\ ec.dataInsights # <<>>
      insightsThrow ==
        /\ withInsights
        /\ \/ ec.dataInsights[1].rockComposition = "noDominantRockTypes"
           \/ ec.dataInsights[1].drillingParameters = "noDt"
      dataPart == IF withData THEN <<"data">> ELSE <<>>
      statsPart == IF withData /\ ud.statistics # <<>> THEN <<"statistics">> ELSE <<>>
      insightParts ==
        IF ~withInsights THEN <<>>
        ELSE (IF ec.dataInsights[1].rockComposition = "complete" THEN <<"dominantRock">> ELSE <<>>)
             \o (IF ec.dataInsights[1].drillingParameters = "complete" THEN <<"ranges">> ELSE <<>>)
             \o (IF Len(ec.dataInsights[1].anomalies) > 0 THEN <<"anomalies">> ELSE <<>>)
             \o (IF ec.messageType \in {"rock_composition", "dt_analysis", "gr_analysis",
                                        "recommendation_request", "data_analysis", "problem_solving"}
                 THEN <<ec.messageType>> ELSE <<>>)
  IN IF statsThrows \/ insightsThrow THEN [threw |-> TRUE, parts |-> <<>>]
     ELSE [threw |-> FALSE,
           parts |-> <<"role">> \o wellPart \o dataPart \o statsPart \o insightParts \o <<"closing">>]

(* A chat response: status 0 stands for no response sent; response and isAIResponse are *)
(* <<>> when the body has no such property.                                            *)
ChatResponse(status, response, isAIResponse, error, sessionId) ==
  [status |-> status, response |-> response, isAIResponse |-> isAIResponse, error |-> error,
   sessionId |-> sessionId]

NoChatResponse == ChatResponse(0, <<>>, <<>>, "", "")

(* What the client sees when the async handler's promise is rejected: the framework either *)
(* leaves the request unanswered or passes the error to the error middleware, which sends *)
(* status 500 with the error's message.                                                   *)
RejectedHandlerResponses ==
  {NoChatResponse, ChatResponse(500, <<>>, <<>>, "TypeError", "")}

(* completion.choices[0].message.content *)
completionText == Text("completion.choices[0].message.content", <<>>)

(* sessionId || `session_${Date.now()}_...` *)
chatSessionId(body) == IF Falsy(body.sessionId) THEN "session_" ELSE "sessionId"

ChatRequest(pc, body, llm, res, calls, inserted) ==
  [pc |-> pc, body |-> body, llm |-> llm, res |-> res, calls |-> calls, inserted |-> inserted]

NoBody == Body(Undef, NoWell, NoDataset, Undef, NoEnhancedContext)
NoChat == ChatRequest("idle", NoBody, "none", NoChatResponse, <<>>, <<>>)

(* catch (error) of the handler: the fallback answer for req.body, sent without a history *)
(* record; a TypeError in it rejects the handler's promise.                              *)
OuterCatchWith(request, calls, llm, rejected, fallbackResponse) ==
  IF fallbackResponse.threw
  THEN ChatRequest("ended", request.body, llm, rejected,
                   calls \o <<"generateFallbackResponse">>, <<>>)
  ELSE ChatRequest("responded", request.body, llm,
                   ChatResponse(200, <<fallbackResponse.text>>, <<FALSE>>,
                                "Service temporarily unavailable",
                                IF Falsy(request.body.sessionId) THEN "fallback_" ELSE "sessionId"),
                   calls \o <<"generateFallbackResponse", "res.json">>, <<>>)

OuterCatch(request, calls, llm, rejected) ==
  OuterCatchWith(request, calls, llm, rejected,
                 generateFallbackResponse(request.body.message, request.body.wellData,
                                          request.body.uploadedData))

(* The handler up to its await: the message check, the context, the LLM call. *)
ChatBegin(request, rejected) ==
  IF MessageMissing(request.body.message)
  THEN ChatRequest("responded", request.body, "none",
                   ChatResponse(400, <<>>, <<>>, "Message is required", ""), <<"res.json">>, <<>>)
  ELSE IF BuildContext(request.body).threw
  THEN OuterCatch(request, <<"context">>, "none", rejected)
  ELSE ChatRequest("awaiting", request.body, "pending", NoChatResponse,
                   <<"context", "openai.chat.completions.create">>, <<>>)

(* The handler from the history record on: db.run, res.json. *)
Respond(request, llm, response, isAIResponse, calls) ==
  ChatRequest("responded", request.body, llm,
              ChatResponse(200, <<response>>, <<isAIResponse>>, "", chatSessionId(request.body)),
              calls \o <<"db.run", "res.json">>, <<response>>)

(* The handler after the await has returned a completion with a message. *)
ChatCompleted(request) ==
  Respond(request, "resolved", completionText, TRUE, request.calls)

(* catch (aiError): the LLM call failed or its completion has no choices[0].message. *)
ChatFailedWith(request, llm, rejected, response, calls) ==
  IF response.threw THEN OuterCatch(request, calls, llm, rejected)
  ELSE Respond(request, llm, response.text, FALSE, calls)

ChatFailed(request, llm, rejected) ==
  ChatFailedWith(request, llm, rejected,
                 generateFallbackResponse(request.body.message, request.body.wellData,
                                          request.body.uploadedData),
                 request.calls \o <<"generateFallbackResponse">>)

(***************************************************************************)
(* Input records for the two pure functions: a row is one of the          *)
(* percentage vectors below with at most one percentage cell and at most   *)
(* one of DEPTH, DT, GR replaced; a record set is such a row with plain    *)
(* rows before and after it.                                               *)
(***************************************************************************)
MaxRows == 2

PctOf(ms) == [k \in 1..Len(ms) |-> Num(ms[k])]

PctBases ==
  { PctOf(<<25, 35, 20, 10, 5, 3, 2>>),
    PctOf(<<50, 30, 10, 5, 2, 1, 1>>),
    PctOf(<<99, 0, 0, 0, 0, 0, 0>>),
    PctOf(<<50, 51, 0, 0, 0, 0, 0>>),
    PctOf(<<57, 32, 12, 0, 0, 0, 0>>),
    PctOf(<<98, 0, 0, 0, 0, 0, 0>>),
    PctOf(<<0, 50, 0, 50, 0, 0, 0>>) }

PctCells == {Undef, Null, Num(150), Num(-50), Str(<<"a", "b", "c">>), Str(<<"1">>)}

PctVectors ==
  PctBases \cup {[p EXCEPT ![k] = v] : p \in PctBases, k \in 1..Len(percentageColumns), v \in PctCells}

LogBase == <<Num(10000), Num(8000), Num(4500)>>
DepthCells == {Undef, Null, Num(0), Num(-10000), Str(<<"a", "b", "c">>)}
DtCells == {Undef, Null, Num(0), Str(<<"a", "b", "c">>)}
GrCells == {Null, Str(<<"1">>)}
LogTriples ==
  {LogBase} \cup {[LogBase EXCEPT ![1] = v] : v \in DepthCells}
            \cup {[LogBase EXCEPT ![2] = v] : v \in DtCells}
            \cup {[LogBase EXCEPT ![3] = v] : v \in GrCells}

MkRow(p, l) ==
  [c \in Cols |-> IF c = "DEPTH" THEN l[1]
                  ELSE IF c = "DT" THEN l[2]
                  ELSE IF c = "GR" THEN l[3]
                  ELSE p[CHOOSE k \in 1..Len(percentageColumns) : percentageColumns[k] = c]]

(* Number-to-string conversion in the sum is modelled for doubles that print with two *)
(* decimals: a row in which text follows a running sum that prints with 17 digits is  *)
(* outside the input set.                                                             *)
RECURSIVE SumPrintable(_, _)
SumPrintable(row, k) ==
  IF k = 1 THEN TRUE
  ELSE LET acc == SumTerms(row, k - 1)
           term == OrZero(row[percentageColumns[k]])
       IN /\ SumPrintable(row, k - 1)
          /\ (acc.t = "number" /\ term.t = "string" => IsShortest(acc))

PrintableVectors ==
  {p \in PctVectors : SumPrintable(MkRow(p, LogBase), Len(percentageColumns))}

RichRows == {MkRow(p, l) : p \in PrintableVectors, l \in LogTriples}

PlainRows ==
  { MkRow(PctOf(<<60, 30, 20, 10, 5, 3, 2>>), <<Num(30000), Str(<<"a", "b", "c">>), Null>>) }

RECURSIVE SeqsUpTo(_, _)
SeqsUpTo(S, n) ==
  IF n = 0 THEN {<<>>}
  ELSE LET shorter == SeqsUpTo(S, n - 1)
       IN shorter \cup {Append(q, x) : q \in shorter, x \in S}

RecordSets ==
  {NoData, <<>>} \cup
  {pre \o <<r>> \o post : pre \in SeqsUpTo(PlainRows, MaxRows - 1),
                          post \in SeqsUpTo(PlainRows, MaxRows - 1), r \in RichRows}

(***************************************************************************)
(* Requests.  An uploaded sheet has all ten columns, or a header that      *)
(* lacks some, over rows drawn from the rows below (DEPTH, the seven       *)
(* percentages, DT, GR; whole-number logs, so that their sums are exact).  *)
(***************************************************************************)
MaxUploadRows == 3
MaxRequests == 2

SheetRow(depth, pcts, dt, gr) == MkRow(pcts, <<depth, dt, gr>>)

UploadRows ==
  { SheetRow(Num(10000), PctOf(<<25, 35, 20, 10, 5, 3, 2>>), Num(8000), Num(4500)),
    SheetRow(Num(20000), PctOf(<<30, 30, 25, 8, 4, 2, 1>>), Num(8500), Num(5000)),
    SheetRow(Num(30000), PctOf(<<35, 25, 30, 6, 3, 1, 0>>), Num(9000), Num(5500)),
    SheetRow(Null, <<Null, Num(50), Num(30), Num(20), Null, Num(0), Num(0)>>, Null, Num(4500)),
    SheetRow(Num(-10000), PctOf(<<150, 35, 20, 10, 5, 3, 2>>), Str(<<"i", "n", "v", "a", "l", "i", "d">>), Num(4500)),
    SheetRow(Num(10000), <<Str(<<"1">>), Num(0), Num(0), Num(0), Num(0), Num(0), Num(0)>>,
             Num(8000), Num(4500)) }

FullHeader == requiredColumns
ShortHeaders == { <<"DEPTH", "%SH">>,
                  <<"DEPTH", "%SH", "%SS", "%LS", "%DOL", "%ANH", "%Coal", "%Salt">> }

(* The array sheet_to_json returns for a row under the given header. *)
RowArray(header, row) == [i \in 1..Len(header) |-> row[header[i]]]

Sheet(header, rows) == RawData(<<header>>, [i \in 1..Len(rows) |-> RowArray(header, rows[i])])

Workbook(ext, rawData) == UploadedFile(TRUE, ext, TRUE, 1, TRUE, rawData)

NoFile == UploadedFile(FALSE, <<>>, FALSE, 0, FALSE, RawData(<<>>, <<>>))

UploadRowSeqs == SeqsUpTo(UploadRows, MaxUploadRows) \ {<<>>}

UploadFiles ==
  { NoFile,
    UploadedFile(TRUE, <<".", "c", "s", "v">>, TRUE, 1, TRUE, RawData(<<>>, <<>>)),
    UploadedFile(TRUE, <<>>, TRUE, 1, TRUE, RawData(<<>>, <<>>)),
    UploadedFile(TRUE, <<".", "x", "l", "s", "x">>, FALSE, 0, FALSE, RawData(<<>>, <<>>)),
    UploadedFile(TRUE, <<".", "x", "l", "s", "x">>, TRUE, 0, FALSE, RawData(<<>>, <<>>)),
    UploadedFile(TRUE, <<".", "x", "l", "s">>, TRUE, 1, FALSE, RawData(<<>>, <<>>)),
    Workbook(<<".", "x", "l", "s", "x">>, RawData(<<>>, <<>>)),
    Workbook(<<".", "x", "l", "s", "x">>, RawData(<<FullHeader>>, <<>>)) }
  \cup {Workbook(<<".", "x", "l", "s", "x">>, Sheet(FullHeader, rows)) : rows \in UploadRowSeqs}
  \cup {Workbook(<<".", "X", "L", "S", "X">>, Sheet(h, <<r>>)) : h \in ShortHeaders, r \in UploadRows}

(* The datasets a chat request carries: those of two successful uploads, and objects that *)
(* lack rows, statistics or parts of the statistics.                                      *)
UploadedDataOf(rows) ==
  DatasetOfUpload(uploadHandler(Workbook(<<".", "x", "l", "s", "x">>, Sheet(FullHeader, rows))).res.body[1])

ThreeRows ==
  << SheetRow(Num(10000), PctOf(<<25, 35, 20, 10, 5, 3, 2>>), Num(8000), Num(4500)),
     SheetRow(Num(20000), PctOf(<<30, 30, 25, 8, 4, 2, 1>>), Num(8500), Num(5000)),
     SheetRow(Num(30000), PctOf(<<35, 25, 30, 6, 3, 1, 0>>), Num(9000), Num(5500)) >>

SparseRow ==
  << SheetRow(Null, <<Null, Num(50), Num(30), Num(20), Null, Num(0), Num(0)>>, Null, Num(4500)) >>

(* A dataset as uploaded, and with rows, statistics or parts of the statistics left out. *)
Variants(full) ==
  { full,
    Dataset("object", <<>>, full.statistics),
    Dataset("object", full.rows, <<>>),
    Dataset("object", full.rows, <<Statistics(full.statistics[1].depthRange, <<>>, <<>>)>>),
    Dataset("object", full.rows, <<Statistics(<<>>, <<>>, <<>>)>>) }

Datasets == {NoDataset, UploadedDataOf(SparseRow)} \cup Variants(UploadedDataOf(ThreeRows))

Wells ==
  { NoWell,
    Well("object", "Well A", 2500, Str(<<"A", "c", "t", "i", "v", "e">>)),
    Well("object", "Well A", 2500, Null) }

ChatTexts ==
  { <<"W", "h", "a", "t", " ", "i", "s", " ", "t", "h", "e", " ", "d", "e", "p", "t", "h", "?">>, <<"S", "h", "a", "l", "e", " ", "c", "o", "n", "t", "e", "n", "t", "?">>, <<"E", "x", "p", "l", "a", "i", "n", " ", "D", "T">>, <<"G", "R", " ", "r", "e", "a", "d", "i", "n", "g", "s">>, <<"A", "n", "a", "l", "y", "z", "e", " ", "t", "h", "e", " ", "d", "a", "t", "a">>,
    <<"A", "n", "y", " ", "a", "d", "v", "i", "c", "e", "?">>, <<"A", "n", "y", " ", "p", "r", "o", "b", "l", "e", "m", "?">>, <<"H", "e", "l", "l", "o">> }

ChatMessages ==
  {Undef, Null, Str(<<>>), Num(0), Num(4200)} \cup {Str(s) : s \in ChatTexts}

EnhancedContexts ==
  { EnhancedContext("object", <<Insights("complete", "complete", <<"dt_anomaly">>)>>, "data_analysis"),
    EnhancedContext("object", <<Insights("absent", "noDt", <<>>)>>, ""),
    EnhancedContext("object", <<>>, "") }

ChatBodies ==
  {Body(m, w, d, Undef, NoEnhancedContext) : m \in ChatMessages, w \in Wells, d \in Datasets}
  \cup {Body(Str(s), NoWell, UploadedDataOf(ThreeRows), Str(<<"s", "1">>), e) :
          s \in ChatTexts, e \in EnhancedContexts}

(***************************************************************************)
(* State.  vData, vResult and pResult hold an input record set and the     *)
(* results of validateExcelStructure and processExcelData on it.  The      *)
(* server holds one request at a time: upload and chat are the upload and  *)
(* chat request in the server with the position of their handler, the      *)
(* response sent and the calls made so far; tempFile tells whether the     *)
(* file multer stored for the upload is on disk; uploaded_files and        *)
(* chat_history count the rows of the two tables; served counts the        *)
(* requests finished.  fCall and fResult hold a call of one of the helper  *)
(* functions with its arguments, and its result once it has returned.      *)
(* dashboard, fileUpload and chatbot are the useState values of the three  *)
(* React components; uploadPosts and chatPosts are the POSTs of FileUpload *)
(* and Chatbot that are in flight.                                         *)
(***************************************************************************)
VARIABLES vData, vResult, pResult, fCall, fResult, upload, chat, tempFile, uploaded_files, chat_history, served, dashboard, fileUpload, chatbot, uploadPosts, chatPosts

pureVars == <<vData, vResult, pResult, fCall, fResult>>
serverVars == <<upload, chat, tempFile, uploaded_files, chat_history, served>>
clientVars == <<dashboard, fileUpload, chatbot, uploadPosts, chatPosts>>
vars == <<vData, vResult, pResult, fCall, fResult,
          upload, chat, tempFile, uploaded_files, chat_history, served,
          dashboard, fileUpload, chatbot, uploadPosts, chatPosts>>

(* The client after its first render: Dashboard shows the upload tab, FileUpload is *)
(* mounted, no well is selected or loaded, no request has been sent.                *)
FileUploadInitial == [uploading |-> FALSE, uploadStatus |-> <<>>, uploadedFile |-> <<>>]
ChatbotInitial == [messages |-> <<>>, inputMessage |-> <<>>, isLoading |-> FALSE]
DashboardInitial ==
  [selectedWell |-> <<>>, wells |-> <<>>, activeTab |-> "upload", uploadedData |-> <<>>]

ClientMounted ==
  /\ dashboard = DashboardInitial
  /\ fileUpload = FileUploadInitial
  /\ chatbot = ChatbotInitial
  /\ uploadPosts = <<>>
  /\ chatPosts = <<>>

UploadRequest(pc, file, res, calls, validation) ==
  [pc |-> pc, file |-> file, res |-> res, calls |-> calls, validation |-> validation]

NoUpload == UploadRequest("idle", NoFile, NoResponse, <<>>, <<>>)

Range(seq) == {seq[i] : i \in 1..Len(seq)}

ServerIdle ==
  /\ upload = NoUpload
  /\ chat = NoChat
  /\ tempFile = FALSE
  /\ uploaded_files = 0
  /\ chat_history = 0
  /\ served = 0

(* No call of a helper function is under way. *)
NoCall == [fn |-> "none"]

InitV ==
  /\ vData \in {d \in RecordSets : Len(d) <= MaxRows}
  /\ vResult = <<>>
  /\ pResult = <<>>
  /\ fCall = NoCall
  /\ fResult = <<>>
  /\ ServerIdle
  /\ ClientMounted

(* A call validateExcelStructure(vData). *)
Validate ==
  /\ vResult = <<>>
  /\ vResult' = <<validateExcelStructure(vData)>>
  /\ UNCHANGED <<vData, pResult, fCall, fResult>>
  /\ UNCHANGED <<serverVars, clientVars>>

(* A call processExcelData(vData) on an array. *)
Process ==
  /\ vResult # <<>>
  /\ pResult = <<>>
  /\ ~(Len(vData) = 1 /\ DOMAIN vData[1] = {"null"})
  /\ pResult' = <<processExcelData(vData)>>
  /\ UNCHANGED <<vData, vResult, fCall, fResult>>
  /\ UNCHANGED <<serverVars, clientVars>>

NextV == Validate \/ Process

SpecV == InitV /\ [][NextV]_vars

Init ==
  /\ vData = <<>>
  /\ vResult = <<>>
  /\ pResult = <<>>
  /\ fCall = NoCall
  /\ fResult = <<>>
  /\ ServerIdle
  /\ ClientMounted

(* upload.single('file'): multer stores the file of the request, if it has one, on disk. *)
ReceiveUpload ==
  /\ upload.pc = "idle" /\ chat.pc = "idle"
  /\ served < MaxRequests
  /\ \E file \in UploadFiles :
        /\ upload' = UploadRequest("received", file, NoResponse, <<>>, <<>>)
        /\ tempFile' = file.present
  /\ UNCHANGED <<chat, uploaded_files, chat_history, served>>
  /\ UNCHANGED <<pureVars, clientVars>>

(* The handler of POST /api/upload, which runs to its response without yielding.  The *)
(* insert into uploaded_files succeeds or fails; its callback only logs.              *)
HandleUpload ==
  /\ upload.pc = "received"
  /\ \E out \in {uploadHandler(upload.file)} :
        /\ upload' = UploadRequest("responded", upload.file, out.res, out.calls, out.validation)
        /\ tempFile' = (tempFile /\ "fs.unlinkSync" \notin Range(out.calls))
        /\ \E saved \in BOOLEAN :
              uploaded_files' =
                uploaded_files + (IF saved /\ "db.run" \in Range(out.calls) THEN 1 ELSE 0)
  /\ UNCHANGED <<chat, chat_history, served>>
  /\ UNCHANGED <<pureVars, clientVars>>

(* The upload request leaves the server. *)
FinishUpload ==
  /\ upload.pc = "responded"
  /\ upload' = NoUpload
  /\ served' = served + 1
  /\ UNCHANGED <<chat, tempFile, uploaded_files, chat_history>>
  /\ UNCHANGED <<pureVars, clientVars>>

(* express.json() has parsed the body of a POST /api/chat request. *)
ReceiveChat ==
  /\ upload.pc = "idle" /\ chat.pc = "idle"
  /\ served < MaxRequests
  /\ \E body \in ChatBodies :
        chat' = ChatRequest("received", body, "none", NoChatResponse, <<>>, <<>>)
  /\ UNCHANGED <<upload, tempFile, uploaded_files, chat_history, served>>
  /\ UNCHANGED <<pureVars, clientVars>>

(* The chat handler from its start to its first await, or to its response. *)
ChatStart ==
  /\ chat.pc = "received"
  /\ \E rejected \in RejectedHandlerResponses : chat' = ChatBegin(chat, rejected)
  /\ UNCHANGED <<upload, tempFile, uploaded_files, chat_history, served>>
  /\ UNCHANGED <<pureVars, clientVars>>

(* The LLM call resolves, with a completion that has a message or with one that has none; *)
(* the handler runs on to its response.  The insert into chat_history succeeds or fails.  *)
LLMResolve ==
  /\ chat.pc = "awaiting"
  /\ \E wellFormed \in BOOLEAN, rejected \in RejectedHandlerResponses, saved \in BOOLEAN :
        /\ chat' = IF wellFormed THEN ChatCompleted(chat)
                   ELSE ChatFailed(chat, "malformed", rejected)
        /\ chat_history' =
             chat_history + (IF saved /\ "db.run" \in Range(chat'.calls) THEN 1 ELSE 0)
  /\ UNCHANGED <<upload, tempFile, uploaded_files, served>>
  /\ UNCHANGED <<pureVars, clientVars>>

(* The LLM call throws or rejects; the handler runs on from its catch. *)
LLMReject ==
  /\ chat.pc = "awaiting"
  /\ \E rejected \in RejectedHandlerResponses, saved \in BOOLEAN :
        /\ chat' = ChatFailed(chat, "failed", rejected)
        /\ chat_history' =
             chat_history + (IF saved /\ "db.run" \in Range(chat'.calls) THEN 1 ELSE 0)
  /\ UNCHANGED <<upload, tempFile, uploaded_files, served>>
  /\ UNCHANGED <<pureVars, clientVars>>

(* The chat request leaves the server: answered, or abandoned by its client. *)
FinishChat ==
  /\ chat.pc \in {"responded", "ended"}
  /\ chat' = NoChat
  /\ served' = served + 1
  /\ UNCHANGED <<upload, tempFile, uploaded_files, chat_history>>
  /\ UNCHANGED <<pureVars, clientVars>>

Next ==
  \/ ReceiveUpload \/ HandleUpload \/ FinishUpload
  \/ ReceiveChat \/ ChatStart \/ LLMResolve \/ LLMReject \/ FinishChat

Spec == Init /\ [][Next]_vars

(***************************************************************************)
(* Calls of the helper functions.  A call of generateFallbackResponse has  *)
(* a message text, one of the wells and one of the datasets above; the     *)
(* mixed texts hold keywords of two branches, or a keyword inside a word.  *)
(***************************************************************************)
(***************************************************************************)
(* The chat client's intent tag (src/client/src/components/Chatbot.js).    *)
(***************************************************************************)
(* The tagging with the data_analysis test ahead of the recommendation_request test. *)
categorizeAnalysisFirst(message) ==
  LET lowerMessage == toLowerCase(message)
  IN
  IF \/ Includes(lowerMessage, <<"d", "e", "p", "t", "h">>)
     \/ Includes(lowerMessage, <<"d", "r", "i", "l", "l", "i", "n", "g", " ", "d", "e", "p", "t", "h">>)
  THEN "depth_inquiry"
  ELSE IF \/ Includes(lowerMessage, <<"r", "o", "c", "k">>)
     \/ Includes(lowerMessage, <<"c", "o", "m", "p", "o", "s", "i", "t", "i", "o", "n">>)
     \/ Includes(lowerMessage, <<"s", "h", "a", "l", "e">>)
     \/ Includes(lowerMessage, <<"s", "a", "n", "d", "s", "t", "o", "n", "e">>)
     \/ Includes(lowerMessage, <<"l", "i", "m", "e", "s", "t", "o", "n", "e">>)
     \/ Includes(lowerMessage, <<"d", "o", "l", "o", "m", "i", "t", "e">>)
  THEN "rock_composition"
  ELSE IF \/ Includes(lowerMessage, <<"d", "t">>)
     \/ Includes(lowerMessage, <<"d", "e", "l", "t", "a", " ", "t", "i", "m", "e">>)
  THEN "dt_analysis"
  ELSE IF \/ Includes(lowerMessage, <<"g", "r">>)
     \/ Includes(lowerMessage, <<"g", "a", "m", "m", "a", " ", "r", "a", "y">>)
  THEN "gr_analysis"
  ELSE IF \/ Includes(lowerMessage, <<"a", "n", "a", "l", "y", "z", "e">>)
     \/ Includes(lowerMessage, <<"a", "n", "a", "l", "y", "s", "i", "s">>)
     \/ Includes(lowerMessage, <<"i", "n", "t", "e", "r", "p", "r", "e", "t">>)
  THEN "data_analysis"
  ELSE IF \/ Includes(lowerMessage, <<"r", "e", "c", "o", "m", "m", "e", "n", "d">>)
     \/ Includes(lowerMessage, <<"s", "u", "g", "g", "e", "s", "t">>)
     \/ Includes(lowerMessage, <<"a", "d", "v", "i", "c", "e">>)
  THEN "recommendation_request"
  ELSE IF \/ Includes(lowerMessage, <<"p", "r", "o", "b", "l", "e", "m">>)
     \/ Includes(lowerMessage, <<"i", "s", "s", "u", "e">>)
     \/ Includes(lowerMessage, <<"c", "h", "a", "l", "l", "e", "n", "g", "e">>)
  THEN "problem_solving"
  ELSE "general_inquiry"

(* categorizeMessage(message): the tag of the first test that the lower-cased message passes. *)
categorizeMessage(message) ==
  LET lowerMessage == toLowerCase(message)
  IN
  IF \/ Includes(lowerMessage, <<"d", "e", "p", "t", "h">>)
     \/ Includes(lowerMessage, <<"d", "r", "i", "l", "l", "i", "n", "g", " ", "d", "e", "p", "t", "h">>)
  THEN "depth_inquiry"
  ELSE IF \/ Includes(lowerMessage, <<"r", "o", "c", "k">>)
     \/ Includes(lowerMessage, <<"c", "o", "m", "p", "o", "s", "i", "t", "i", "o", "n">>)
     \/ Includes(lowerMessage, <<"s", "h", "a", "l", "e">>)
     \/ Includes(lowerMessage, <<"s", "a", "n", "d", "s", "t", "o", "n", "e">>)
     \/ Includes(lowerMessage, <<"l", "i", "m", "e", "s", "t", "o", "n", "e">>)
     \/ Includes(lowerMessage, <<"d", "o", "l", "o", "m", "i", "t", "e">>)
  THEN "rock_composition"
  ELSE IF \/ Includes(lowerMessage, <<"d", "t">>)
     \/ Includes(lowerMessage, <<"d", "e", "l", "t", "a", " ", "t", "i", "m", "e">>)
  THEN "dt_analysis"
  ELSE IF \/ Includes(lowerMessage, <<"g", "r">>)
     \/ Includes(lowerMessage, <<"g", "a", "m", "m", "a", " ", "r", "a", "y">>)
  THEN "gr_analysis"
  ELSE IF \/ Includes(lowerMessage, <<"r", "e", "c", "o", "m", "m", "e", "n", "d">>)
     \/ Includes(lowerMessage, <<"s", "u", "g", "g", "e", "s", "t">>)
     \/ Includes(lowerMessage, <<"a", "d", "v", "i", "c", "e">>)
  THEN "recommendation_request"
  ELSE IF \/ Includes(lowerMessage, <<"a", "n", "a", "l", "y", "z", "e">>)
     \/ Includes(lowerMessage, <<"a", "n", "a", "l", "y", "s", "i", "s">>)
     \/ Includes(lowerMessage, <<"i", "n", "t", "e", "r", "p", "r", "e", "t">>)
  THEN "data_analysis"
  ELSE IF \/ Includes(lowerMessage, <<"p", "r", "o", "b", "l", "e", "m">>)
     \/ Includes(lowerMessage, <<"i", "s", "s", "u", "e">>)
     \/ Includes(lowerMessage, <<"c", "h", "a", "l", "l", "e", "n", "g", "e">>)
  THEN "problem_solving"
  ELSE "general_inquiry"

(***************************************************************************)
(* The React client: Dashboard (src/client/src/components/Dashboard.js)    *)
(* renders FileUpload on the upload tab and Chatbot on the chatbot tab.    *)
(* A component that is not rendered has no state: it starts from its       *)
(* initial state when it is rendered again, and the state updates of a     *)
(* request it left in flight are dropped.  uploadPosts and chatPosts are   *)
(* the requests the client has sent, each with the values its handler      *)
(* closed over, whether the component that sent it is still mounted, and   *)
(* the position of its handler.                                            *)
(***************************************************************************)
endsWith(s, suffix) ==
  Len(s) >= Len(suffix) /\ SubSeq(s, Len(s) - Len(suffix) + 1, Len(s)) = suffix

(* A gate that looks for the extension anywhere in the name. *)
IsExcelNameAnywhere(name) == Includes(toLowerCase(name), <<".", "x", "l", "s">>)

(* file.name.toLowerCase().endsWith('.xlsx') || file.name.toLowerCase().endsWith('.xls') *)
IsExcelName(name) ==
  endsWith(toLowerCase(name), <<".", "x", "l", "s", "x">>) \/ endsWith(toLowerCase(name), <<".", "x", "l", "s">>)

RECURSIVE TrimLeft(_)
TrimLeft(s) == IF s # <<>> /\ Head(s) = " " THEN TrimLeft(Tail(s)) ELSE s

RECURSIVE TrimRight(_)
TrimRight(s) ==
  IF s # <<>> /\ s[Len(s)] = " " THEN TrimRight(SubSeq(s, 1, Len(s) - 1)) ELSE s

(* inputMessage.trim() *)
trim(s) == TrimRight(TrimLeft(s))

(* The files a user drops, by name. *)
ClientFiles == {<<"a", ".", "x", "l", "s", "x">>, <<"B", ".", "X", "L", "S">>, <<"n", "o", "t", "e", "s", ".", "t", "x", "t">>, <<"d", "a", "t", "a", ".", "x", "l", "s", "x", ".", "p", "d", "f">>}

(* The wells GET /api/wells returns. *)
LoadedWells == <<1>>

(* response.data of a successful upload: the rows of the file, with or without a wellId. *)
UploadResponses(file) == {[file |-> file, wellId |-> w] : w \in {<<>>, <<1>>}}

(* error.response?.data?.message || 'Failed to upload file. Please try again.' *)
UploadErrorMessages == {"error.response.data.message", "Failed to upload file. Please try again."}

UploadStatus(type, message) == [type |-> type, message |-> message]

UploadPost(file, wells) == [file |-> file, wells |-> wells, attached |-> TRUE]

ChatPost(message, wellData, uploadedData, userMessage) ==
  [message |-> message, wellData |-> wellData, uploadedData |-> uploadedData,
   messageType |-> categorizeMessage(message), userMessage |-> userMessage,
   attached |-> TRUE, state |-> "pending"]

Message(type, content) == [type |-> type, content |-> content, uploadedData |-> FALSE]

(* The requests in flight but the i-th: a request leaves when its handler has finished. *)
Settled(posts, i) == [k \in 1..(Len(posts) - 1) |-> IF k < i THEN posts[k] ELSE posts[k + 1]]

(* The requests of a component that is unmounted. *)
Detach(posts) == [i \in DOMAIN posts |-> [posts[i] EXCEPT !.attached = FALSE]]

(* At most so many requests are in flight, and a conversation is so long. *)
MaxInFlight == 2
MaxMessages == 5

(* The welcome-message effect of a Chatbot that mounts: messages.length === 0. *)
welcomeMessage(d) ==
  Message("bot", IF d.uploadedData # <<>> THEN "welcome: uploaded data"
                 ELSE IF d.selectedWell # <<>> THEN "welcome: selected well"
                 ELSE "welcome")

ChatbotMounted(d) == [ChatbotInitial EXCEPT !.messages = <<welcomeMessage(d)>>]

(* A handleFileUpload that stores the data and stays on the tab. *)
handleFileUploadKeepingTab(d, data, wells) ==
  [d EXCEPT !.selectedWell = IF data.wellId # <<>> /\ data.wellId[1] \in Range(wells)
                             THEN data.wellId ELSE @,
            !.uploadedData = <<data>>]

(* Dashboard.handleFileUpload(data), with the wells of the render that passed it down. *)
handleFileUpload(d, data, wells) ==
  [d EXCEPT !.selectedWell = IF data.wellId # <<>> /\ data.wellId[1] \in Range(wells)
                             THEN data.wellId ELSE @,
            !.uploadedData = <<data>>,
            !.activeTab = "visualization"]

(* The render that follows a handler: d is the Dashboard's new state; fu, cb, up and cp *)
(* are the new state and requests of FileUpload and Chatbot if they stay mounted.      *)
Render(d, fu, cb, up, cp) ==
  /\ dashboard' = d
  /\ fileUpload' = IF dashboard.activeTab = "upload" /\ d.activeTab = "upload" THEN fu
                   ELSE FileUploadInitial
  /\ uploadPosts' = IF dashboard.activeTab = "upload" /\ d.activeTab # "upload" THEN Detach(up)
                    ELSE up
  /\ chatbot' = IF d.activeTab # "chatbot" THEN ChatbotInitial
                ELSE IF dashboard.activeTab = "chatbot" THEN cb
                ELSE ChatbotMounted(d)
  /\ chatPosts' = IF dashboard.activeTab = "chatbot" /\ d.activeTab # "chatbot" THEN Detach(cp)
                  ELSE cp

(* What FileUpload renders of its status: the status sits in the panel of the displayed *)
(* file, and the drop zone that replaces the panel shows none.                          *)
displayedStatus(fu) == IF fu.uploadedFile # <<>> THEN fu.uploadStatus ELSE <<>>

typeError == UploadStatus("error", "Please upload an Excel file (.xlsx or .xls)")

(* FileUpload.handleFile(file) up to its await; the drop zone is rendered while no file *)
(* is displayed.                                                                        *)
handleFileOn(file) ==
  /\ dashboard.activeTab = "upload"
  /\ fileUpload.uploadedFile = <<>>
  /\ IF ~IsExcelName(file)
     THEN Render(dashboard, [fileUpload EXCEPT !.uploadStatus = <<typeError>>], chatbot,
                 uploadPosts, chatPosts)
     ELSE /\ Len(uploadPosts) + Len(chatPosts) < MaxInFlight
          /\ Render(dashboard,
                    [uploading |-> TRUE, uploadStatus |-> <<>>, uploadedFile |-> <<file>>],
                    chatbot, Append(uploadPosts, UploadPost(file, dashboard.wells)), chatPosts)
  /\ UNCHANGED <<pureVars, serverVars>>

handleFile == \E file \in ClientFiles : handleFileOn(file)

(* handleFile after its await, the POST having succeeded: the success status, *)
(* onFileUpload(response.data), finally setUploading(false).                 *)
UploadFulfilledWith(i, data) ==
  /\ Render(handleFileUpload(dashboard, data, uploadPosts[i].wells),
            IF uploadPosts[i].attached
            THEN [fileUpload EXCEPT
                    !.uploadStatus = <<UploadStatus("success", "File uploaded and processed successfully!")>>,
                    !.uploading = FALSE]
            ELSE fileUpload,
            chatbot,
            Settled(uploadPosts, i),
            chatPosts)
  /\ UNCHANGED <<pureVars, serverVars>>

UploadFulfilled ==
  \E i \in DOMAIN uploadPosts : \E data \in UploadResponses(uploadPosts[i].file) :
     UploadFulfilledWith(i, data)

(* handleFile after its await, the POST having failed: catch (error), finally. *)
UploadRejectedWith(i, message) ==
  /\ Render(dashboard,
            IF uploadPosts[i].attached
            THEN [fileUpload EXCEPT !.uploadStatus = <<UploadStatus("error", message)>>,
                                    !.uploading = FALSE]
            ELSE fileUpload,
            chatbot,
            Settled(uploadPosts, i),
            chatPosts)
  /\ UNCHANGED <<pureVars, serverVars>>

UploadRejected ==
  \E i \in DOMAIN uploadPosts : \E message \in UploadErrorMessages : UploadRejectedWith(i, message)

(* FileUpload.clearUpload: the X of the displayed file. *)
clearUpload ==
  /\ dashboard.activeTab = "upload"
  /\ fileUpload.uploadedFile # <<>>
  /\ Render(dashboard, [fileUpload EXCEPT !.uploadedFile = <<>>, !.uploadStatus = <<>>],
            chatbot, uploadPosts, chatPosts)
  /\ UNCHANGED <<pureVars, serverVars>>

(* Dashboard's loadWells effect: setWells(wellsData). *)
loadWells ==
  /\ dashboard.wells = <<>>
  /\ Render([dashboard EXCEPT !.wells = LoadedWells], fileUpload, chatbot, uploadPosts, chatPosts)
  /\ UNCHANGED <<pureVars, serverVars>>

(* Dashboard.handleWellSelect(well), from the well list. *)
handleWellSelect ==
  /\ \E well \in Range(dashboard.wells) :
        Render([dashboard EXCEPT !.selectedWell = <<well>>, !.activeTab = "visualization"],
               fileUpload, chatbot, uploadPosts, chatPosts)
  /\ UNCHANGED <<pureVars, serverVars>>

(* A click on another tab: setActiveTab(tab.id). *)
setActiveTab ==
  /\ \E tab \in {"upload", "visualization", "chatbot"} \ {dashboard.activeTab} :
        Render([dashboard EXCEPT !.activeTab = tab], fileUpload, chatbot, uploadPosts, chatPosts)
  /\ UNCHANGED <<pureVars, serverVars>>

(* What the user types or picks as a quick question. *)
InputTexts == {<<>>, <<" ", " ">>, <<" ", "d", "e", "p", "t", "h", "?", " ">>}

(* Chatbot: setInputMessage(text), by typing or by a quick question. *)
setInputMessage ==
  /\ dashboard.activeTab = "chatbot"
  /\ \E text \in InputTexts \ {chatbot.inputMessage} :
        Render(dashboard, fileUpload, [chatbot EXCEPT !.inputMessage = text], uploadPosts, chatPosts)
  /\ UNCHANGED <<pureVars, serverVars>>

(* A handleSendMessage that sends while a request is in flight. *)
SendBlockedWhenBlank(cb) == trim(cb.inputMessage) = <<>>

(* if (!inputMessage.trim() || isLoading) return *)
SendBlocked(cb) == trim(cb.inputMessage) = <<>> \/ cb.isLoading

(* Chatbot.handleSendMessage up to its await. *)
handleSendMessage ==
  /\ dashboard.activeTab = "chatbot"
  /\ IF SendBlocked(chatbot) THEN UNCHANGED clientVars
     ELSE /\ Len(uploadPosts) + Len(chatPosts) < MaxInFlight
          /\ Len(chatbot.messages) < MaxMessages
          /\ Render(dashboard, fileUpload,
                    [messages |-> Append(chatbot.messages, Message("user", trim(chatbot.inputMessage))),
                     inputMessage |-> <<>>,
                     isLoading |-> TRUE],
                    uploadPosts,
                    Append(chatPosts, ChatPost(trim(chatbot.inputMessage), dashboard.selectedWell,
                                               dashboard.uploadedData, Len(chatbot.messages) + 1)))
  /\ UNCHANGED <<pureVars, serverVars>>

(* setMessages(prev => [...prev, message]) and finally setIsLoading(false), on a Chatbot *)
(* that is still mounted.                                                               *)
Answered(cb, post, content) ==
  IF post.attached
  THEN [cb EXCEPT !.messages = Append(@, Message("bot", content)), !.isLoading = FALSE]
  ELSE cb

(* handleSendMessage after its await, the POST having succeeded: with no rows at hand and *)
(* an uploadedFileId in the response it awaits GET /api/uploads/:id/data first.           *)
ChatFulfilled ==
  /\ \E i \in DOMAIN chatPosts : \E uploadedFileId \in BOOLEAN :
        /\ chatPosts[i].state = "pending"
        /\ IF chatPosts[i].uploadedData = <<>> /\ uploadedFileId
           THEN Render(dashboard, fileUpload, chatbot, uploadPosts,
                       [chatPosts EXCEPT ![i].state = "refreshing"])
           ELSE Render(dashboard, fileUpload,
                       Answered(chatbot, chatPosts[i], "response.data.response"),
                       uploadPosts, Settled(chatPosts, i))
  /\ UNCHANGED <<pureVars, serverVars>>

(* The GET has ended: with rows the user message gets them; then the bot message. *)
ChatRefreshed ==
  /\ \E i \in DOMAIN chatPosts : \E rows \in BOOLEAN :
        /\ chatPosts[i].state = "refreshing"
        /\ Render(dashboard, fileUpload,
                  Answered(IF rows /\ chatPosts[i].attached
                           THEN [chatbot EXCEPT !.messages[chatPosts[i].userMessage].uploadedData = TRUE]
                           ELSE chatbot,
                           chatPosts[i], "response.data.response"),
                  uploadPosts, Settled(chatPosts, i))
  /\ UNCHANGED <<pureVars, serverVars>>

(* handleSendMessage after its await, the POST having failed: the fixed error message. *)
ChatRejected ==
  /\ \E i \in DOMAIN chatPosts :
        /\ chatPosts[i].state = "pending"
        /\ Render(dashboard, fileUpload,
                  Answered(chatbot, chatPosts[i],
                           "Sorry, I encountered an error processing your request. Please try again."),
                  uploadPosts, Settled(chatPosts, i))
  /\ UNCHANGED <<pureVars, serverVars>>

InitC ==
  /\ vData = <<>>
  /\ vResult = <<>>
  /\ pResult = <<>>
  /\ fCall = NoCall
  /\ fResult = <<>>
  /\ ServerIdle
  /\ ClientMounted

NextC ==
  \/ handleFile \/ UploadFulfilled \/ UploadRejected \/ clearUpload
  \/ loadWells \/ handleWellSelect \/ setActiveTab
  \/ setInputMessage \/ handleSendMessage \/ ChatFulfilled \/ ChatRefreshed \/ ChatRejected

SpecC == InitC /\ [][NextC]_vars

MixedTexts ==
  { <<"D", "e", "p", "t", "h", " ", "a", "n", "d", " ", "r", "e", "c", "o", "m", "m", "e", "n", "d">>,
    <<"A", "N", "A", "L", "Y", "S", "I", "S", " ", "a", "d", "v", "i", "c", "e">>,
    <<"L", "i", "m", "e", "s", "t", "o", "n", "e", " ", "D", "T">>,
    <<"G", "a", "m", "m", "a", " ", "r", "a", "y", " ", "p", "r", "o", "b", "l", "e", "m">>,
    <<"W", "i", "d", "t", "h">>,
    <<"S", "u", "g", "g", "e", "s", "t", "i", "o", "n", " ", "f", "o", "r", " ", "t", "r", "o", "u", "b", "l", "e">>,
    <<"D", "e", "l", "t", "a", " ", "t", "i", "m", "e", " ", "i", "s", "s", "u", "e", " ", "a", "n", "a", "l", "y", "s", "i", "s">> }

FallbackCalls ==
  { [fn |-> "generateFallbackResponse", message |-> Str(s), wellData |-> w, uploadedData |-> d] :
      s \in ChatTexts \cup MixedTexts, w \in Wells, d \in Datasets }

(* Statistics as a client may send them: a distribution keyed by the category names or by *)
(* the column abbreviations, and averages as quotients of hundredths.                     *)
Distributions ==
  { <<[type |-> "Shale", count |-> 3]>>,
    <<[type |-> "Sandstone", count |-> 2], [type |-> "Shale", count |-> 1]>>,
    <<[type |-> "Limestone", count |-> 1], [type |-> "Dolomite", count |-> 1],
      [type |-> "Salt", count |-> 2]>>,
    <<[type |-> "Anhydrite", count |-> 4]>>,
    <<[type |-> "SH", count |-> 2], [type |-> "SS", count |-> 1], [type |-> "LS", count |-> 1]>>,
    <<[type |-> "DOL", count |-> 1], [type |-> "Coal", count |-> 3]>>,
    <<>> }

LogAverages ==
  { [DT |-> [num |-> dt, den |-> 3], GR |-> [num |-> gr, den |-> 3]] :
      dt \in {17700, 18000, 25500, 30000, 30300}, gr \in {14700, 15000, 30000, 30300} }

StatisticsSets ==
  { Dataset("object", <<>>, <<Statistics(<<[min |-> Num(10000), max |-> Num(30000)]>>, <<d>>, <<a>>)>>) :
      d \in Distributions, a \in LogAverages }

(* Calls that ask about DT and GR on statistics whose averages lie on and around the *)
(* thresholds 50, 60 and 100.                                                         *)
LogTexts == {<<"E", "x", "p", "l", "a", "i", "n", " ", "D", "T">>, <<"G", "R", " ", "r", "e", "a", "d", "i", "n", "g", "s">>, <<"d", "e", "l", "t", "a", " ", "t", "i", "m", "e", " ", "v", "s", " ", "G", "A", "M", "M", "A", " ", "R", "A", "Y">>}

LogCalls ==
  { [fn |-> "generateFallbackResponse", message |-> Str(s), wellData |-> NoWell, uploadedData |-> d] :
      s \in LogTexts, d \in StatisticsSets }

RecommendationCalls ==
  { [fn |-> "generateDrillingRecommendations", uploadedData |-> d] : d \in Datasets \cup StatisticsSets }

(* Rows as a client may send them, in percent and in quarters: compositions summing to   *)
(* 100, to the edges 85 and 115 and just beyond them, and to 1; DT and GR absent, 0, on  *)
(* the edges of [30, 250] and [0, 400] and just outside them.                            *)
LogRow(depth, values, dt, gr) ==
  processedRow(depth, [k \in 1..Len(values) |-> Num(values[k])], dt, gr, 1, values)

AnomalyRows ==
  { LogRow(Num(10000), <<2500, 3500, 2000, 1000, 500, 300, 200>>, Num(8000), Num(4500)),
    LogRow(Num(20000), <<4100, 3500, 2000, 1000, 500, 300, 200>>, Num(2500), Num(45000)),
    LogRow(Num(30000), <<2500, 3500, 2000, 1000, 500, 300, 200>>, Num(0), Num(0)),
    LogRow(Num(40000), <<4000, 3500, 2000, 1000, 500, 300, 200>>, Num(25000), Num(40000)),
    LogRow(Num(50000), <<975, 3500, 2000, 1000, 500, 300, 200>>, Num(25025), Num(-100)),
    LogRow(Null, <<1000, 3500, 2000, 1000, 500, 300, 200>>, Null, Null),
    LogRow(Num(60000), <<2500, 3500, 2000, 1000, 500, 300, 200>>, Num(3000), Num(40025)),
    LogRow(Num(70000), <<25, 25, 25, 25, 0, 0, 0>>, Num(2975), Num(4500)) }

MaxAnomalyRows == 3

AnomalyRowSeqs == UNION {[1..n -> AnomalyRows] : n \in 0..MaxAnomalyRows}

(* The record sets the validator accepts, and the row sequences of the sheets whose *)
(* upload succeeds.                                                                 *)
AcceptedRecordSets ==
  {d \in {<<r>> : r \in RichRows} : /\ ~validateExcelStructure(d).threw
                                     /\ validateExcelStructure(d).isValid}

MaxProblemRows == 2

AcceptedUploads ==
  {rows \in SeqsUpTo(UploadRows, MaxProblemRows) \ {<<>>} :
     uploadHandler(Workbook(<<".", "x", "l", "s", "x">>, Sheet(FullHeader, rows))).res.status = 200}

AnomalyCalls ==
  {[fn |-> "detectDataAnomalies", rows |-> rows] : rows \in AnomalyRowSeqs}
  \cup {[fn |-> "detectDataAnomalies", rows |-> processExcelData(d)] : d \in AcceptedRecordSets}

(* Questions about problems, asked on the data of every successful upload. *)
ProblemTexts == {<<"A", "n", "y", " ", "p", "r", "o", "b", "l", "e", "m", "?">>, <<"A", "n", " ", "I", "S", "S", "U", "E", " ", "o", "r", " ", "c", "h", "a", "l", "l", "e", "n", "g", "e">>, <<"t", "r", "o", "u", "b", "l", "e">>}

ProblemCalls ==
  { [fn |-> "generateFallbackResponse", message |-> Str(s), wellData |-> NoWell,
     uploadedData |-> UploadedDataOf(rows)] : s \in ProblemTexts, rows \in AcceptedUploads }

(* Messages the chat client tags: those above, and ones with the keywords only the client knows. *)
ClientTexts ==
  { <<"R", "o", "c", "k">>,
    <<"I", " ", "S", "U", "G", "G", "E", "S", "T", " ", "a", " ", "t", "e", "s", "t">>,
    <<"I", "n", "t", "e", "r", "p", "r", "e", "t", " ", "t", "h", "i", "s">>,
    <<"B", "i", "g", " ", "C", "H", "A", "L", "L", "E", "N", "G", "E">>,
    <<"D", "r", "i", "l", "l", "i", "n", "g", " ", "D", "e", "p", "t", "h", " ", "o", "f", " ", "r", "o", "c", "k">>,
    <<"A", "n", "a", "l", "y", "z", "e", " ", "t", "h", "e", " ", "G", "R", " ", "i", "s", "s", "u", "e">>,
    <<"D", "o", "l", "o", "m", "i", "t", "e", " ", "a", "d", "v", "i", "c", "e">>,
    <<>> }

CategorizeCalls ==
  {[fn |-> "categorizeMessage", message |-> s] : s \in ChatTexts \cup MixedTexts \cup ClientTexts}

HelperCalls ==
  FallbackCalls \cup LogCalls \cup ProblemCalls
  \cup RecommendationCalls \cup AnomalyCalls \cup CategorizeCalls

InitF ==
  /\ vData = <<>>
  /\ vResult = <<>>
  /\ pResult = <<>>
  /\ fCall \in HelperCalls
  /\ fResult = <<>>
  /\ ServerIdle
  /\ ClientMounted

(* A call generateFallbackResponse(message, wellData, uploadedData). *)
CallFallback ==
  /\ fCall.fn = "generateFallbackResponse"
  /\ fResult = <<>>
  /\ fResult' = <<generateFallbackResponse(fCall.message, fCall.wellData, fCall.uploadedData)>>
  /\ UNCHANGED <<vData, vResult, pResult, fCall>>
  /\ UNCHANGED <<serverVars, clientVars>>

(* A second call that answers by what the first call left behind. *)
CallFallbackRemembering ==
  /\ fCall.fn = "generateFallbackResponse"
  /\ Len(fResult) = 1
  /\ fResult' = Append(fResult, IF fResult[1].threw THEN fResult[1]
                                ELSE Returned(Text("", fResult[1].text.args)))
  /\ UNCHANGED <<vData, vResult, pResult, fCall>>
  /\ UNCHANGED <<serverVars, clientVars>>

(* A second call generateFallbackResponse(message, wellData, uploadedData) with the   *)
(* arguments of the first: the function reads its arguments only and writes nothing. *)
CallFallbackAgain ==
  /\ fCall.fn = "generateFallbackResponse"
  /\ Len(fResult) = 1
  /\ fResult' = Append(fResult, generateFallbackResponse(fCall.message, fCall.wellData,
                                                         fCall.uploadedData))
  /\ UNCHANGED <<vData, vResult, pResult, fCall>>
  /\ UNCHANGED <<serverVars, clientVars>>

(* A call generateDrillingRecommendations(uploadedData). *)
CallRecommendations ==
  /\ fCall.fn = "generateDrillingRecommendations"
  /\ fResult = <<>>
  /\ fResult' = <<generateDrillingRecommendations(fCall.uploadedData)>>
  /\ UNCHANGED <<vData, vResult, pResult, fCall>>
  /\ UNCHANGED <<serverVars, clientVars>>

(* A call detectDataAnomalies(rows). *)
CallAnomalies ==
  /\ fCall.fn = "detectDataAnomalies"
  /\ fResult = <<>>
  /\ fResult' = <<detectDataAnomalies(fCall.rows)>>
  /\ UNCHANGED <<vData, vResult, pResult, fCall>>
  /\ UNCHANGED <<serverVars, clientVars>>

(* A call categorizeMessage(message). *)
CallCategorize ==
  /\ fCall.fn = "categorizeMessage"
  /\ fResult = <<>>
  /\ fResult' = <<categorizeMessage(fCall.message)>>
  /\ UNCHANGED <<vData, vResult, pResult, fCall>>
  /\ UNCHANGED <<serverVars, clientVars>>

NextF ==
  \/ CallFallback \/ CallFallbackAgain
  \/ CallRecommendations \/ CallAnomalies \/ CallCategorize

SpecF == InitF /\ [][NextF]_vars

(***************************************************************************)
(* Properties of the two pure functions, checked under SpecV.  The         *)
(* expected results are computed here in exact decimal arithmetic from the *)
(* input record set, independently of the operators above.                 *)
(***************************************************************************)
Validated == vResult # <<>> /\ ~IsNoData(vData)

(* How often an error occurs in the returned list. *)
Occurrences(errors, err) == Cardinality({i \in 1..Len(errors) : errors[i] = err})

(* The real sum, in hundredths, of a row's percentage cells, absent and null counting 0. *)
ExactSum(row) ==
  LET f[k \in 0..Len(percentageColumns)] ==
        IF k = 0 THEN 0
        ELSE f[k - 1] + (IF row[percentageColumns[k]].t = "number"
                         THEN row[percentageColumns[k]].m ELSE 0)
  IN f[Len(percentageColumns)]

(* Every percentage cell of the row is a number, null or absent. *)
SumDefined(row) ==
  \A k \in 1..Len(percentageColumns) :
     row[percentageColumns[k]].t \in {"number", "null", "undefined"}

ExactOutOfTolerance(row) ==
  ExactSum(row) - 100 > SumTolerance \/ 100 - ExactSum(row) > SumTolerance

(* The fields of a row that are present, non-null and break their rule. *)
BrokenFields(row) ==
  {c \in Cols :
     /\ row[c].t \notin {"null", "undefined"}
     /\ \/ row[c].t # "number"
        \/ c = "DEPTH" /\ row[c].m < 0
        \/ c \notin {"DEPTH", "DT", "GR"} /\ (row[c].m < 0 \/ row[c].m > 100)}

FieldError(n, c) ==
  IF c = "DEPTH" THEN DepthError(n)
  ELSE IF c \in {"DT", "GR"} THEN NumericError(n, c)
  ELSE PercentageError(n, c)

(* The required columns that are no key of the first record, in required-column order. *)
AbsentColumns(data) ==
  SelectSeq(requiredColumns, LAMBDA c : data[1][c].t = "undefined")

(* The 7 normalized percentages of a processed row, in the fixed category order. *)
Percentages(r) == <<r.SH.m, r.SS.m, r.LS.m, r.DOL.m, r.ANH.m, r.Coal.m, r.Salt.m>>

(* The positions, in the fixed category order, at which the row's maximum is reached. *)
MaxPositions(r) ==
  {k \in 1..Len(rockTypeNames) :
     \A j \in 1..Len(rockTypeNames) : Percentages(r)[j] <= Percentages(r)[k]}

First(S) == CHOOSE k \in S : \A j \in S : k <= j
Last(S) == CHOOSE k \in S : \A j \in S : j <= k

C2_OneErrorPerViolation ==
  Validated =>
    LET v == vResult[1]
        fixed == (IF Len(AbsentColumns(vData)) > 0 THEN 1 ELSE 0)
        K[n \in 0..Len(vData)] ==
          IF n = 0 THEN [lo |-> fixed, hi |-> fixed]
          ELSE LET f == Cardinality(BrokenFields(vData[n]))
                   lo == IF SumDefined(vData[n]) /\ ExactOutOfTolerance(vData[n]) THEN 1 ELSE 0
                   hi == IF SumDefined(vData[n]) THEN lo ELSE 1
               IN [lo |-> K[n - 1].lo + f + lo, hi |-> K[n - 1].hi + f + hi]
    IN /\ ~v.threw
       /\ K[Len(vData)].lo <= Len(v.errors)
       /\ Len(v.errors) <= K[Len(vData)].hi

(* C7: for every row whose percentage cells are numbers, null or absent, the validator    *)
(* returns the sum error, carrying the sum with 3 decimals, exactly when the sum differs  *)
(* from 1.0 by more than 0.01; so 0.99 and 1.01 give no sum error, 0.98 and 1.02 give it. *)
C7_SumErrorIffOutOfTolerance ==
  Validated =>
    \A n \in 1..Len(vData) :
       SumDefined(vData[n]) =>
         /\ ExactOutOfTolerance(vData[n]) =>
              Occurrences(vResult[1].errors, SumError(n, 10 * ExactSum(vData[n]))) = 1
         /\ ~ExactOutOfTolerance(vData[n]) =>
              \A i \in 1..Len(vResult[1].errors) :
                 ~(vResult[1].errors[i].kind = "sum" /\ vResult[1].errors[i].row = n)

(* C8: for every row n and every field, the validator returns the field error of row n    *)
(* exactly when the value is present, non-null and breaks its rule (DEPTH a number >= 0,  *)
(* a percentage a number in [0,1], DT and GR a number).                                   *)
C8_FieldErrorIffRuleBroken ==
  Validated =>
    \A n \in 1..Len(vData) : \A c \in Cols :
       Occurrences(vResult[1].errors, FieldError(n, c)) =
         (IF c \in BrokenFields(vData[n]) THEN 1 ELSE 0)

(* C9: the validator returns exactly one missing-columns error, listing the required      *)
(* columns absent from the first record in required-column order, when at least one is    *)
(* absent, and no such error when the first record has all 10.                            *)
C9_MissingColumnsListed ==
  Validated =>
    LET absent == AbsentColumns(vData)
        found == {i \in 1..Len(vResult[1].errors) : vResult[1].errors[i].kind = "missing"}
    IN IF Len(absent) > 0
       THEN Cardinality(found) = 1 /\ \A i \in found : vResult[1].errors[i].cols = absent
       ELSE found = {}

(* C22: for every input, an empty or absent record list included, the validator returns *)
(* a result whose isValid is true exactly when its errors list is empty; for a non-empty *)
(* input the result has totalRows equal to the number of records and columns equal to   *)
(* the keys of the first record, valid or not.                                          *)
C22_ResultShape ==
  vResult # <<>> =>
    /\ ~vResult[1].threw
    /\ vResult[1].isValid <=> vResult[1].errors = <<>>
    /\ ~IsNoData(vData) =>
         /\ vResult[1].totalRows = <<Len(vData)>>
         /\ vResult[1].columns = <<Keys(vData[1])>>

(***************************************************************************)
(* Properties of the two request handlers, checked under Spec.             *)
(***************************************************************************)
Called(calls, names) == Range(calls) \cap names # {}

(* The validator's report on the rows of the sheet of an uploaded file. *)
ReportOn(file) == validateExcelStructure(dataRows(file.rawData))

(* The handler of the upload in the server has just run and called the validator. *)
UploadValidated == upload.pc = "responded" /\ Called(upload.calls, {"validateExcelStructure"})

(* The DT and GR values of the rows of a 200 upload response, and their exact sums with *)
(* null counted as 0.                                                                   *)
LogsOf(rows, log) == [i \in 1..Len(rows) |-> IF log = "DT" THEN rows[i].DT ELSE rows[i].GR]

RECURSIVE ExactLogSum(_)
ExactLogSum(cells) ==
  IF cells = <<>> THEN 0
  ELSE (IF Head(cells).t = "null" THEN 0 ELSE Head(cells).m) + ExactLogSum(Tail(cells))

UploadAccepted == upload.pc = "responded" /\ upload.res.status = 200

C6_MessageRequired ==
  [][(/\ chat.pc = "received"
      /\ chat'.pc # "received"
      /\ \/ chat.body.message.t = "undefined"
         \/ chat.body.message.t = "string" /\ chat.body.message.s = <<>>) =>
       /\ chat'.pc = "responded"
       /\ chat'.res.status = 400
       /\ chat'.res.error = "Message is required"
       /\ chat'.res.response = <<>>
       /\ ~Called(chat'.calls, {"context", "openai.chat.completions.create",
                                "generateFallbackResponse", "db.run"})
       /\ chat'.inserted = <<>>
       /\ chat_history' = chat_history
  ]_vars

(* A request with the empty string as its message, carrying a well and a dataset, has     *)
(* been answered 400.                                                                     *)
C6_EmptyMessageRejected ==
  /\ chat.pc = "responded"
  /\ chat.body.message = Str(<<>>)
  /\ chat.body.wellData.t = "object"
  /\ HasRows(chat.body.uploadedData)
  /\ chat.res.status = 400

(* C10: in every 200 upload response averages.DT is the sum of the rows' DT, null counted *)
(* as 0, divided by the number of rows, and the same for GR; rows with DT 80, 85, 90 and  *)
(* GR 45, 50, 55 give DT = 85 and GR = 50.                                                *)
C10_AveragesOverAllRows ==
  UploadAccepted =>
    LET rows == upload.res.body[1].rows
        averages == upload.res.body[1].statistics.averages
    IN /\ Len(rows) > 0
       /\ averages.DT.num * Len(rows) = ExactLogSum(LogsOf(rows, "DT")) * averages.DT.den
       /\ averages.GR.num * Len(rows) = ExactLogSum(LogsOf(rows, "GR")) * averages.GR.den
       /\ averages.DT.den > 0 /\ averages.GR.den > 0
       /\ LogsOf(rows, "DT") = <<Num(8000), Num(8500), Num(9000)>> =>
             averages.DT.num = 8500 * averages.DT.den
       /\ LogsOf(rows, "GR") = <<Num(4500), Num(5000), Num(5500)>> =>
             averages.GR.num = 5000 * averages.GR.den

(* A 200 upload response on three rows of which one has no DT and two have one. *)
C10_NullAmongValues ==
  /\ UploadAccepted
  /\ Len(upload.res.body[1].rows) = 3
  /\ Cardinality({i \in 1..3 : upload.res.body[1].rows[i].DT.t = "null"}) = 1
  /\ upload.res.body[1].statistics.averages.DT.num > 0

(* C4: whenever the LLM call of a chat request throws or rejects, the handler answers 200 *)
(* with response = generateFallbackResponse(message, wellData, uploadedData) and          *)
(* isAIResponse = false; no error status reaches the client.                              *)
C4_FallbackOnLLMFailure ==
  (chat.pc \in {"responded", "ended"} /\ chat.llm = "failed") =>
    /\ chat.pc = "responded"
    /\ chat.res.status = 200
    /\ chat.res.isAIResponse = <<FALSE>>
    /\ ~generateFallbackResponse(chat.body.message, chat.body.wellData,
                                 chat.body.uploadedData).threw
    /\ chat.res.response =
         <<generateFallbackResponse(chat.body.message, chat.body.wellData,
                                    chat.body.uploadedData).text>>

(* C5: the chat path never fails observably: every chat request that carries a message,   *)
(* whatever the rest of its body and whatever the outcome of the LLM call, the context    *)
(* building or the history write, leaves its handler answered 200 with a response string  *)
(* and an isAIResponse boolean.                                                           *)
C5_ChatAlwaysAnswered ==
  (chat.pc \in {"responded", "ended"} /\ ~Falsy(chat.body.message)) =>
    /\ chat.pc = "responded"
    /\ chat.res.status = 200
    /\ chat.res.response # <<>>
    /\ chat.res.isAIResponse \in {<<TRUE>>, <<FALSE>>}

(* The non-null depths of the rows of a 200 upload response, as a set of hundredths. *)
DepthValues(rows) == {rows[i].DEPTH.m : i \in {j \in 1..Len(rows) : rows[j].DEPTH.t = "number"}}

(* C11: in every 200 upload response with a row of non-null depth, depthRange.min and     *)
(* depthRange.max are the least and the greatest of the non-null depths, so min <= max    *)
(* and both are depths of a row; depths 100, 200, 300 give min 100 and max 300.           *)
C11_DepthRangeOverNonNull ==
  (UploadAccepted /\ DepthValues(upload.res.body[1].rows) # {}) =>
    LET rows == upload.res.body[1].rows
        range == upload.res.body[1].statistics.depthRange
    IN /\ range.min.t = "number" /\ range.max.t = "number"
       /\ range.min.m \in DepthValues(rows) /\ range.max.m \in DepthValues(rows)
       /\ \A d \in DepthValues(rows) : range.min.m <= d /\ d <= range.max.m
       /\ range.min.m <= range.max.m
       /\ [i \in 1..Len(rows) |-> rows[i].DEPTH] = <<Num(10000), Num(20000), Num(30000)>> =>
            range.min = Num(10000) /\ range.max = Num(30000)

(* A 200 upload response on three rows: one without a depth between two of different depth. *)
C11_NullDepthAmongDepths ==
  /\ UploadAccepted
  /\ Len(upload.res.body[1].rows) = 3
  /\ upload.res.body[1].rows[2].DEPTH.t = "null"
  /\ upload.res.body[1].rows[1].DEPTH.t = "number"
  /\ upload.res.body[1].rows[3].DEPTH.t = "number"
  /\ upload.res.body[1].rows[1].DEPTH.m > upload.res.body[1].rows[3].DEPTH.m
  /\ upload.res.body[1].statistics.depthRange.min = upload.res.body[1].rows[3].DEPTH

(* The rows of a row set whose dominantRockType is the category. *)
RowsOfType(rows, type) == {i \in 1..Len(rows) : rows[i].dominantRockType = type}

RECURSIVE CountSum(_)
CountSum(entries) == IF entries = <<>> THEN 0 ELSE Head(entries).count + CountSum(Tail(entries))

(* C12: in every 200 upload response rockTypeDistribution has, for each category, an entry *)
(* with the number of rows whose dominantRockType is that category exactly when that      *)
(* number is not 0, no other entry, and counts that add up to totalRows.                  *)
C12_DistributionCountsDominant ==
  UploadAccepted =>
    LET rows == upload.res.body[1].rows
        dist == upload.res.body[1].statistics.rockTypeDistribution
    IN /\ \A i, j \in 1..Len(dist) : dist[i].type = dist[j].type => i = j
       /\ \A i \in 1..Len(dist) :
             /\ dist[i].type \in Range(rockTypeNames)
             /\ dist[i].count > 0
             /\ dist[i].count = Cardinality(RowsOfType(rows, dist[i].type))
       /\ \A k \in 1..Len(rockTypeNames) :
             RowsOfType(rows, rockTypeNames[k]) # {} =>
               \E i \in 1..Len(dist) : dist[i].type = rockTypeNames[k]
       /\ CountSum(dist) = upload.res.body[1].statistics.totalRows
       /\ CountSum(dist) = Len(rows)

(* A 200 upload response on three rows, two of one dominant category and one of another. *)
C12_TwoCategoriesCounted ==
  /\ UploadAccepted
  /\ Len(upload.res.body[1].rows) = 3
  /\ Len(upload.res.body[1].statistics.rockTypeDistribution) = 2
  /\ \E i \in 1..2 : upload.res.body[1].statistics.rockTypeDistribution[i].count = 2

(***************************************************************************)
(* Properties of processExcelData on single cells, checked under SpecV.    *)
(***************************************************************************)
Processed == pResult # <<>>

(* The field of a processed row that holds the column. *)
FieldOf(row, c) ==
  IF c \in {"DEPTH", "DT", "GR"} THEN row[c]
  ELSE row[rockTypeFields[CHOOSE k \in 1..Len(percentageColumns) : percentageColumns[k] = c]]

(* A source value that is missing, null, or a text without any digit. *)
NonNumeric(cell) ==
  \/ cell.t \in {"undefined", "null"}
  \/ cell.t = "string" /\ \A i \in 1..Len(cell.s) : ~IsDigit(cell.s[i])

(* C13: processExcelData returns a row for every record, in which a missing, null or      *)
(* non-numeric source value is 0 in each of the 7 category fields and null in DEPTH, DT   *)
(* and GR.                                                                                *)
C13_DefaultsForNonNumeric ==
  Processed =>
    /\ Len(pResult[1]) = Len(vData)
    /\ \A i \in 1..Len(vData) : \A c \in Cols :
          NonNumeric(vData[i][c]) =>
            FieldOf(pResult[1][i], c) = (IF c \in {"DEPTH", "DT", "GR"} THEN Null ELSE Num(0))

(* A processed record whose %SS and DT were the text "abc". *)
C13_TextCellsProcessed ==
  /\ Processed
  /\ \E i \in 1..Len(vData) :
        /\ vData[i]["%SS"] = Str(<<"a", "b", "c">>)
        /\ vData[i]["DT"] = Str(<<"a", "b", "c">>)
        /\ pResult[1][i].SS = Num(0)
        /\ pResult[1][i].DT = Null

(* C14: for every source value that is a number, the value 0 included, the field of the   *)
(* processed row equals that number, for DEPTH, DT, GR and the 7 percentage columns; the  *)
(* numeric text "1" gives 1.                                                              *)
C14_NumbersCarriedUnchanged ==
  Processed =>
    \A i \in 1..Len(vData) : \A c \in Cols :
       /\ vData[i][c].t = "number" => FieldOf(pResult[1][i], c) = Num(vData[i][c].m)
       /\ vData[i][c] = Str(<<"1">>) => FieldOf(pResult[1][i], c) = Num(100)

(***************************************************************************)
(* Properties of the upload handler's parser stage, checked under Spec.    *)
(***************************************************************************)
ExcelExtensions ==
  { <<".", "x", "l", "s", "x">>, <<".", "x", "l", "s">>,
    <<".", "X", "L", "S", "X">>, <<".", "X", "L", "S">> }

(* The file fails at the parser stage: its extension is not .xlsx or .xls (in either    *)
(* case), it cannot be decoded, its workbook has no worksheet, or its sheet has no row, *)
(* or a header row and no data row.                                                     *)
ParserStageFailure(file) ==
  /\ file.present
  /\ \/ file.ext \notin ExcelExtensions
     \/ ~file.readable
     \/ file.sheetNames = 0
     \/ ~file.worksheet
     \/ file.rawData.header = <<>>
     \/ file.rawData.rows = <<>>

(* C15: an uploaded file that fails at the parser stage is answered 400 and the validator *)
(* is never called for it: neither it, the transform, the statistics nor the insert run.  *)
C15_ParserRejectsBeforeValidation ==
  [][(upload.pc = "received" /\ upload'.pc = "responded" /\ ParserStageFailure(upload.file)) =>
       /\ upload'.res.status = 400
       /\ ~Called(upload'.calls, {"validateExcelStructure", "processExcelData", "stats", "db.run"})
       /\ upload'.validation = <<>>
       /\ upload'.res.body = <<>>
       /\ uploaded_files' = uploaded_files
  ]_vars

(* A spreadsheet with a header row and no data row has been answered 400. *)
C15_HeaderOnlyRejected ==
  /\ upload.pc = "responded"
  /\ upload.file.readable /\ upload.file.worksheet
  /\ upload.file.rawData.header = <<requiredColumns>>
  /\ upload.file.rawData.rows = <<>>
  /\ upload.res.status = 400
  /\ upload.res.details =
       <<Note("Excel file must contain at least a header row and one data row")>>

(***************************************************************************)
(* Properties of the helper functions, checked under SpecF.                *)
(***************************************************************************)
FallbackReturned ==
  fCall.fn = "generateFallbackResponse" /\ fResult # <<>> /\ ~fResult[1].threw

(* The branches in their order, each with its keywords and the sentences it answers with. *)
Branches ==
  << [name |-> "depth", keywords |-> {"depth"},
      answers |-> {"Based on your uploaded data, the depth range spans",
                   "The current drilling depth for", "Depth information is not available"}],
     [name |-> "composition",
      keywords |-> {"rock composition", "composition", "shale", "sandstone", "limestone", "dolomite"},
      answers |-> {"Based on your uploaded data, the rock composition analysis shows",
                   "Rock composition data shows the geological makeup"}],
     [name |-> "dt", keywords |-> {"dt", "delta time"},
      answers |-> {"Your uploaded data shows an average DT of",
                   "DT (Delta Time) measurements indicate acoustic travel time"}],
     [name |-> "gr", keywords |-> {"gr", "gamma ray"},
      answers |-> {"Your uploaded data shows an average GR of",
                   "GR (Gamma Ray) readings measure natural radioactivity"}],
     [name |-> "analysis", keywords |-> {"analyze", "analysis"},
      answers |-> {"Based on your data points",
                   "To provide detailed analysis, I need access to your drilling data"}],
     [name |-> "recommendation", keywords |-> {"recommend", "suggestion", "advice"},
      answers |-> {"Drilling recommendations based on your data",
                   "Upload data required for specific recommendations.",
                   "For specific drilling recommendations, I would need to analyze your formation data"}],
     [name |-> "problem", keywords |-> {"problem", "issue", "challenge", "trouble"},
      answers |-> {"I've identified potential issues in your data",
                   "Your data appears consistent without obvious anomalies",
                   "Common drilling challenges include"}] >>

DefaultAnswers ==
  {"I have access to your drilling data", "I'm here to help with drilling data analysis"}

(* The characters of a keyword of the table. *)
KeywordChars ==
  [ kw \in UNION {Branches[k].keywords : k \in 1..Len(Branches)} |->
      CASE kw = "depth" -> <<"d", "e", "p", "t", "h">>
        [] kw = "rock composition" -> <<"r", "o", "c", "k", " ", "c", "o", "m", "p", "o", "s", "i", "t", "i", "o", "n">>
        [] kw = "composition" -> <<"c", "o", "m", "p", "o", "s", "i", "t", "i", "o", "n">>
        [] kw = "shale" -> <<"s", "h", "a", "l", "e">>
        [] kw = "sandstone" -> <<"s", "a", "n", "d", "s", "t", "o", "n", "e">>
        [] kw = "limestone" -> <<"l", "i", "m", "e", "s", "t", "o", "n", "e">>
        [] kw = "dolomite" -> <<"d", "o", "l", "o", "m", "i", "t", "e">>
        [] kw = "dt" -> <<"d", "t">>
        [] kw = "delta time" -> <<"d", "e", "l", "t", "a", " ", "t", "i", "m", "e">>
        [] kw = "gr" -> <<"g", "r">>
        [] kw = "gamma ray" -> <<"g", "a", "m", "m", "a", " ", "r", "a", "y">>
        [] kw = "analyze" -> <<"a", "n", "a", "l", "y", "z", "e">>
        [] kw = "analysis" -> <<"a", "n", "a", "l", "y", "s", "i", "s">>
        [] kw = "recommend" -> <<"r", "e", "c", "o", "m", "m", "e", "n", "d">>
        [] kw = "suggestion" -> <<"s", "u", "g", "g", "e", "s", "t", "i", "o", "n">>
        [] kw = "advice" -> <<"a", "d", "v", "i", "c", "e">>
        [] kw = "problem" -> <<"p", "r", "o", "b", "l", "e", "m">>
        [] kw = "issue" -> <<"i", "s", "s", "u", "e">>
        [] kw = "challenge" -> <<"c", "h", "a", "l", "l", "e", "n", "g", "e">>
        [] kw = "trouble" -> <<"t", "r", "o", "u", "b", "l", "e">> ]

(* The branches one of whose keywords is a substring of the lower-cased message. *)
Matching(message) ==
  {k \in 1..Len(Branches) :
     \E kw \in Branches[k].keywords : Includes(toLowerCase(message), KeywordChars[kw])}

(* The sentences the first matching branch answers with, the default's when none matches. *)
ExpectedAnswers(message) ==
  IF Matching(message) = {} THEN DefaultAnswers
  ELSE Branches[CHOOSE k \in Matching(message) : \A j \in Matching(message) : k <= j].answers

(* C16: the answer of generateFallbackResponse is a sentence of the first branch, in the  *)
(* order depth, composition, DT, GR, analysis, recommendation, problem, one of whose      *)
(* keywords is a substring of the lower-cased message, and of the default when no keyword *)
(* matches; "depth" with "recommend" gets a depth answer, "analysis" with "advice" an     *)
(* analysis answer.                                                                       *)
C16_FirstMatchingBranchAnswers ==
  FallbackReturned =>
    /\ fResult[1].text.id \in ExpectedAnswers(fCall.message.s)
    /\ fCall.message.s = <<"D", "e", "p", "t", "h", " ", "a", "n", "d", " ", "r", "e", "c", "o", "m", "m", "e", "n", "d">> => fResult[1].text.id \in Branches[1].answers
    /\ fCall.message.s = <<"A", "N", "A", "L", "Y", "S", "I", "S", " ", "a", "d", "v", "i", "c", "e">> => fResult[1].text.id \in Branches[5].answers
    /\ fCall.message.s = <<"H", "e", "l", "l", "o">> => fResult[1].text.id \in DefaultAnswers

(* The message "Depth and recommend", sent with a dataset, has got the depth-range answer. *)
C16_DepthBeforeRecommend ==
  /\ FallbackReturned
  /\ fCall.message.s = <<"D", "e", "p", "t", "h", " ", "a", "n", "d", " ", "r", "e", "c", "o", "m", "m", "e", "n", "d">>
  /\ HasStatistics(fCall.uploadedData)
  /\ fResult[1].text.id = "Based on your uploaded data, the depth range spans"

(* A call whose message contains "depth": the two such texts of the input set. *)
DepthAsked ==
  /\ fCall.fn = "generateFallbackResponse"
  /\ fResult # <<>>
  /\ fCall.message.s \in {<<"W", "h", "a", "t", " ", "i", "s", " ", "t", "h", "e", " ", "d", "e", "p", "t", "h", "?">>, <<"D", "e", "p", "t", "h", " ", "a", "n", "d", " ", "r", "e", "c", "o", "m", "m", "e", "n", "d">>}

(* C17: for a message containing "depth" the answer is the depth-range sentence when      *)
(* dataset statistics with a depthRange are given, otherwise the well-depth sentence when *)
(* a well is given, otherwise the sentence "Depth information is not available"; so "What *)
(* is the depth?" with no well and no dataset gets that generic sentence.                 *)
C17_DepthBranchAnswers ==
  DepthAsked =>
    /\ ~fResult[1].threw
    /\ fResult[1].text.id =
         (IF /\ fCall.uploadedData.t = "object"
             /\ fCall.uploadedData.statistics # <<>>
             /\ fCall.uploadedData.statistics[1].depthRange # <<>>
          THEN "Based on your uploaded data, the depth range spans"
          ELSE IF fCall.wellData.t = "object"
          THEN "The current drilling depth for"
          ELSE "Depth information is not available")

(* A call of generateDrillingRecommendations on statistics that have a category          *)
(* distribution and averages has returned.                                               *)
Recommended ==
  /\ fCall.fn = "generateDrillingRecommendations"
  /\ fResult # <<>>
  /\ fCall.uploadedData.t = "object"
  /\ fCall.uploadedData.statistics # <<>>
  /\ fCall.uploadedData.statistics[1].rockTypeDistribution # <<>>
  /\ fCall.uploadedData.statistics[1].averages # <<>>

(* The rows of a category in a distribution, and the rows of all categories. *)
RowsIn(dist, category) ==
  CountSum(SelectSeq(dist, LAMBDA entry : entry.type = category))

(* The advices the rules give: a share is the fraction of the rows of the distribution   *)
(* whose dominant category is the one named, an average the quotient num/den hundredths. *)
ExpectedAdvices(dist, averages) ==
  LET total == CountSum(dist)
      rules ==
        (IF 100 * RowsIn(dist, "Shale") > 40 * total
         THEN {"High shale content detected"} ELSE {})
        \cup (IF 100 * RowsIn(dist, "Sandstone") > 30 * total
              THEN {"Significant sandstone intervals"} ELSE {})
        \cup (IF 100 * (RowsIn(dist, "Limestone") + RowsIn(dist, "Dolomite")) > 25 * total
              THEN {"Carbonate formations present"} ELSE {})
        \cup (IF averages.DT.num > 10000 * averages.DT.den THEN {"High DT values"} ELSE {})
        \cup (IF averages.DT.num < 6000 * averages.DT.den THEN {"Low DT values"} ELSE {})
        \cup (IF averages.GR.num > 10000 * averages.GR.den THEN {"High GR readings"} ELSE {})
  IN IF rules = {} THEN {"Formation appears relatively uniform"} ELSE rules

(* C18: on statistics with a category distribution and averages, the recommendations      *)
(* hold each advice exactly when its condition holds (shale share > 40%, sandstone share  *)
(* > 30%, limestone plus dolomite share > 25%, DT average > 100, DT average < 60, GR      *)
(* average > 100, the shares being fractions of the rows by dominant category), and the   *)
(* uniform-formation default exactly when none holds, so the list is never empty.         *)
C18_AdviceIffCondition ==
  Recommended =>
    /\ ~fResult[1].threw
    /\ fResult[1].text.id = "Drilling recommendations based on your data"
    /\ fResult[1].text.args # <<>>
    /\ {fResult[1].text.args[i].name : i \in 1..Len(fResult[1].text.args)} =
         ExpectedAdvices(fCall.uploadedData.statistics[1].rockTypeDistribution[1],
                         fCall.uploadedData.statistics[1].averages[1])

(***************************************************************************)
(* Order of the calls of the chat handler                                  *)
(***************************************************************************)
(* The positions of a call in the calls a handler has made. *)
Positions(calls, name) == {i \in 1..Len(calls) : calls[i] = name}

(* The chat handler has run to its end on a request whose message is a non-empty string. *)
ChatHandled ==
  /\ chat.pc \in {"responded", "ended"}
  /\ chat.body.message.t = "string"
  /\ chat.body.message.s # <<>>

(* C27: on a request with a non-empty message the chat handler calls the LLM exactly     *)
(* once, calls generateFallbackResponse only after that call has failed, answers with    *)
(* isAIResponse true exactly when the response is the LLM's output, and issues the       *)
(* chat_history insert at most once, before the answer and with the text it answers.     *)
C27_OneLLMCallThenFallback ==
  ChatHandled =>
    /\ Cardinality(Positions(chat.calls, "openai.chat.completions.create")) = 1
    /\ \A f \in Positions(chat.calls, "generateFallbackResponse") :
         /\ chat.llm \in {"failed", "malformed"}
         /\ \A c \in Positions(chat.calls, "openai.chat.completions.create") : c < f
    /\ chat.pc = "responded" =>
         (chat.res.isAIResponse = <<TRUE>> <=> chat.res.response = <<completionText>>)
    /\ Cardinality(Positions(chat.calls, "db.run")) <= 1
    /\ \A d \in Positions(chat.calls, "db.run") :
         /\ chat.inserted = chat.res.response
         /\ \A r \in Positions(chat.calls, "res.json") : d < r

(***************************************************************************)
(* Cleanup of the uploaded file                                            *)
(***************************************************************************)
(* C26: a POST /api/upload request that carried a file is answered, on every exit path *)
(* of the handler, only after the file multer stored has been deleted.                 *)
C26_TempFileDeletedOnEveryExit ==
  (upload.pc = "responded" /\ upload.file.present) =>
    /\ upload.res.status # 0
    /\ "fs.unlinkSync" \in Range(upload.calls)
    /\ ~tempFile

(* The handler has answered 500 from its catch block and the file is gone. *)
C26_DeletedAfterException ==
  /\ upload.pc = "responded"
  /\ upload.file.present
  /\ upload.res.status = 500
  /\ ~tempFile

(***************************************************************************)
(* detectDataAnomalies                                                     *)
(***************************************************************************)
AnomaliesDetected == fCall.fn = "detectDataAnomalies" /\ fResult # <<>>

(* The sum of the 7 composition values of a row, in hundredths. *)
CompositionSum(row) ==
  ToNumber(row.SH) + ToNumber(row.SS) + ToNumber(row.LS) + ToNumber(row.DOL)
  + ToNumber(row.ANH) + ToNumber(row.Coal) + ToNumber(row.Salt)

Outside(v, low, high) == v.t = "number" /\ (v.m < low \/ v.m > high)

(* The anomalies of a row by the three rules, as depth and type tag. *)
ExpectedRowAnomalies(row) ==
  (IF CompositionSum(row) > 11500 \/ CompositionSum(row) < 8500
   THEN <<[depth |-> row.DEPTH, type |-> "composition_error"]>> ELSE <<>>)
  \o (IF Outside(row.DT, 3000, 25000)
      THEN <<[depth |-> row.DEPTH, type |-> "dt_extreme"]>> ELSE <<>>)
  \o (IF Outside(row.GR, 0, 40000)
      THEN <<[depth |-> row.DEPTH, type |-> "gr_extreme"]>> ELSE <<>>)

RECURSIVE ExpectedAnomalies(_)
ExpectedAnomalies(rows) ==
  IF rows = <<>> THEN <<>>
  ELSE ExpectedRowAnomalies(Head(rows)) \o ExpectedAnomalies(Tail(rows))

(* C19: detectDataAnomalies visits the rows in order and flags a composition anomaly iff *)
(* the 7 composition values sum to more than 15 away from 100, a DT anomaly iff the DT   *)
(* value is outside [30, 250] and a GR anomaly iff the GR value is outside [0, 400]; it *)
(* returns the first 5 of them, each with the depth of its row, a type tag and a        *)
(* description.                                                                         *)
C19_AnomaliesFlagged ==
  AnomaliesDetected =>
    /\ Len(fResult[1]) <= 5
    /\ [i \in 1..Len(fResult[1]) |-> [depth |-> fResult[1][i].depth, type |-> fResult[1][i].type]]
         = Slice(ExpectedAnomalies(fCall.rows), 5)
    /\ \A i \in 1..Len(fResult[1]) : fResult[1][i].description # <<>>

(***************************************************************************)
(* categorizeMessage                                                       *)
(***************************************************************************)
Categorized == fCall.fn = "categorizeMessage" /\ fResult # <<>>

(* The categories in priority order, each with its keywords. *)
IntentTable ==
  << [tag |-> "depth_inquiry",
      keywords |-> {<<"d", "e", "p", "t", "h">>, <<"d", "r", "i", "l", "l", "i", "n", "g", " ", "d", "e", "p", "t", "h">>}],
     [tag |-> "rock_composition",
      keywords |-> {<<"r", "o", "c", "k">>, <<"c", "o", "m", "p", "o", "s", "i", "t", "i", "o", "n">>, <<"s", "h", "a", "l", "e">>, <<"s", "a", "n", "d", "s", "t", "o", "n", "e">>, <<"l", "i", "m", "e", "s", "t", "o", "n", "e">>, <<"d", "o", "l", "o", "m", "i", "t", "e">>}],
     [tag |-> "dt_analysis",
      keywords |-> {<<"d", "t">>, <<"d", "e", "l", "t", "a", " ", "t", "i", "m", "e">>}],
     [tag |-> "gr_analysis",
      keywords |-> {<<"g", "r">>, <<"g", "a", "m", "m", "a", " ", "r", "a", "y">>}],
     [tag |-> "recommendation_request",
      keywords |-> {<<"r", "e", "c", "o", "m", "m", "e", "n", "d">>, <<"s", "u", "g", "g", "e", "s", "t">>, <<"a", "d", "v", "i", "c", "e">>}],
     [tag |-> "data_analysis",
      keywords |-> {<<"a", "n", "a", "l", "y", "z", "e">>, <<"a", "n", "a", "l", "y", "s", "i", "s">>, <<"i", "n", "t", "e", "r", "p", "r", "e", "t">>}],
     [tag |-> "problem_solving",
      keywords |-> {<<"p", "r", "o", "b", "l", "e", "m">>, <<"i", "s", "s", "u", "e">>, <<"c", "h", "a", "l", "l", "e", "n", "g", "e">>}] >>

(* The categories one of whose keywords is a substring of the message, letter case aside. *)
MatchingCategories(message) ==
  {k \in 1..Len(IntentTable) : IncludesAny(toLowerCase(message), IntentTable[k].keywords)}

(* C20: categorizeMessage returns the tag of the first category, in the order             *)
(* depth_inquiry, rock_composition, dt_analysis, gr_analysis, recommendation_request,    *)
(* data_analysis, problem_solving, one of whose keywords is a case-insensitive substring *)
(* of the message, and general_inquiry exactly when no keyword of any category matches.  *)
C20_FirstCategoryTagged ==
  Categorized =>
    /\ \A k \in MatchingCategories(fCall.message) :
         (\A j \in MatchingCategories(fCall.message) : k <= j) => fResult[1] = IntentTable[k].tag
    /\ fResult[1] = "general_inquiry" <=> MatchingCategories(fCall.message) = {}

(* A message with an upper-case keyword of data_analysis and a keyword of                *)
(* recommendation_request was tagged.                                                    *)
C20_TwoCategoriesMatched ==
  /\ Categorized
  /\ {5, 6} \subseteq MatchingCategories(fCall.message)
  /\ 5 = CHOOSE k \in MatchingCategories(fCall.message) :
             \A j \in MatchingCategories(fCall.message) : k <= j
  /\ ~Includes(fCall.message, <<"a", "n", "a", "l", "y", "s", "i", "s">>)
  /\ fResult[1] = "recommendation_request"

(***************************************************************************)
(* Determinism of the fallback answer                                      *)
(***************************************************************************)
CalledTwice == fCall.fn = "generateFallbackResponse" /\ Len(fResult) = 2

LogAnswered(log) ==
  /\ FallbackReturned
  /\ ~fResult[1].threw
  /\ fResult[1].text.id = (IF log = "DT" THEN "Your uploaded data shows an average DT of"
                           ELSE "Your uploaded data shows an average GR of")

(* The bucket of an average num/den hundredths: below low, above high, or between them. *)
Bucket(avg, low, high, below, above, between) ==
  IF avg.num < 100 * low * avg.den THEN below
  ELSE IF avg.num <= 100 * high * avg.den THEN between
  ELSE above

FallbackAverages == fCall.uploadedData.statistics[1].averages[1]

(* C25: the DT branch interprets an average below 60 as dense, above 100 as porous and *)
(* in [60, 100] as moderate; the GR branch an average below 50 as clean, above 100 as  *)
(* shale-rich and in [50, 100] as mixed; one interpretation is given for every average. *)
C25_BucketsByStrictThresholds ==
  /\ LogAnswered("DT") =>
       /\ Len(fResult[1].text.args) = 2
       /\ fResult[1].text.args[2].name =
            Bucket(FallbackAverages.DT, 60, 100,
                   "dense, low-porosity", "higher porosity", "moderate porosity")
  /\ LogAnswered("GR") =>
       /\ Len(fResult[1].text.args) = 2
       /\ fResult[1].text.args[2].name =
            Bucket(FallbackAverages.GR, 50, 100,
                   "clean formations", "shale-rich", "mixed lithology")

(* The DT branch has answered on an average of exactly 60. *)
C25_AverageOnThreshold ==
  /\ LogAnswered("DT")
  /\ FallbackAverages.DT.num = 6000 * FallbackAverages.DT.den
  /\ fResult[1].text.args[2].name = "moderate porosity"

(***************************************************************************)
(* Fractions under the anomaly detector                                    *)
(***************************************************************************)
(* A row as a successful upload yields it: 7 fractions in [0, 1] that sum to within 0.01 *)
(* of 1.                                                                                *)
FractionRow(row) ==
  /\ \A v \in {row.SH, row.SS, row.LS, row.DOL, row.ANH, row.Coal, row.Salt} :
        v.t = "number" /\ 0 <= v.m /\ v.m <= 100
  /\ CompositionSum(row) \in 99..101

FractionRows(rows) == rows # <<>> /\ \A i \in 1..Len(rows) : FractionRow(rows[i])

FlaggedComposition(anomalies, row) ==
  \E i \in 1..Len(anomalies) :
     anomalies[i].type = "composition_error" /\ anomalies[i].depth = row.DEPTH

(* C28: detectDataAnomalies flags every row of 7 fractions summing to within 0.01 of 1   *)
(* as a composition error (as far as the 5 anomalies it returns reach), so that on a     *)
(* non-empty dataset of such rows the problem branch of the fallback reports anomalies   *)
(* and never answers that the data appears consistent.                                   *)
C28_FractionsAlwaysFlagged ==
  /\ (AnomaliesDetected /\ FractionRows(fCall.rows)) =>
       /\ fResult[1] # <<>>
       /\ fResult[1][1].type = "composition_error"
       /\ \A i \in 1..Len(fCall.rows) :
            FlaggedComposition(fResult[1], fCall.rows[i]) \/ Len(fResult[1]) = 5
  /\ (/\ FallbackReturned
      /\ HasRows(fCall.uploadedData)
      /\ FractionRows(fCall.uploadedData.rows[1])
      /\ fResult[1].text.id \in {"I've identified potential issues in your data",
                                 "Your data appears consistent without obvious anomalies"}) =>
       fResult[1].text.id = "I've identified potential issues in your data"

(* The problem branch has answered on the rows of a successful upload. *)
C28_ProblemAskedOnUpload ==
  /\ FallbackReturned
  /\ HasStatistics(fCall.uploadedData)
  /\ HasRows(fCall.uploadedData)
  /\ FractionRows(fCall.uploadedData.rows[1])
  /\ Len(fCall.uploadedData.rows[1]) = 2
  /\ fResult[1].text.id = "I've identified potential issues in your data"

(***************************************************************************)
(* Claims about the client, checked under SpecC.                           *)
(***************************************************************************)

(* The names among ClientFiles that end, in any letter case, in .xlsx or .xls. *)
ExcelNames == {<<"a", ".", "x", "l", "s", "x">>, <<"B", ".", "X", "L", "S">>}

C24_UploadCompletion ==
  [][/\ \A i \in DOMAIN uploadPosts : \A data \in UploadResponses(uploadPosts[i].file) :
          UploadFulfilledWith(i, data) =>
            /\ dashboard'.uploadedData = <<data>>
            /\ dashboard'.activeTab = "visualization"
            /\ Len(uploadPosts') = Len(uploadPosts) - 1
     /\ \A i \in DOMAIN uploadPosts : \A message \in UploadErrorMessages :
          UploadRejectedWith(i, message) =>
            /\ dashboard' = dashboard
            /\ Len(uploadPosts') = Len(uploadPosts) - 1
            /\ uploadPosts[i].attached =>
                 displayedStatus(fileUpload') = <<UploadStatus("error", message)>>
     /\ dashboard'.uploadedData # dashboard.uploadedData =>
          \E i \in DOMAIN uploadPosts : \E data \in UploadResponses(uploadPosts[i].file) :
             UploadFulfilledWith(i, data)]_vars

(* The POSTs in flight whose handler belongs to the mounted FileUpload. *)
AttachedUploads == {i \in DOMAIN uploadPosts : uploadPosts[i].attached}

(* C29: under every interleaving of handleFile, clearUpload and POST completions,        *)
(* uploading is true exactly while a POST of the mounted FileUpload is in flight, and a  *)
(* status that a completing POST puts on display is the status of the displayed file.    *)
C29_UploadingWhileInFlight ==
  /\ [](fileUpload.uploading <=> AttachedUploads # {})
  /\ [][\A i \in AttachedUploads : \A message \in UploadErrorMessages :
          (UploadRejectedWith(i, message) /\ displayedStatus(fileUpload') # <<>>) =>
            fileUpload'.uploadedFile = <<uploadPosts[i].file>>]_vars

(* The requests in flight that the mounted Chatbot has sent. *)
AttachedChats == {i \in DOMAIN chatPosts : chatPosts[i].attached}

BotAnswers ==
  {"response.data.response",
   "Sorry, I encountered an error processing your request. Please try again."}

====
